---- MODULE Spec2Model ----
(***************************************************************************)
(* LingoFlow: the client-side orchestration pipeline of ExploreView        *)
(* (handleSearch, handleGenerateVisual, handlePlayAudio) over the audio    *)
(* controller and speech cache of services/geminiService.ts.               *)
(*                                                                         *)
(* A JavaScript string is a sequence of one-character tokens, so that      *)
(* trim and the cache-key template are computed, not assumed.  A nullable  *)
(* object (result, visualContent) is a sequence of length 0 (null) or 1.   *)
(* Every handler is one action up to its first real suspension point;      *)
(* each later action is the continuation that runs when the awaited        *)
(* backend call settles.                                                   *)
(***************************************************************************)
EXTENDS Naturals, Sequences, FiniteSets, TLC

VARIABLES
  inputText,            \* useState('')                     part_000:49
  isSearching,          \* useState(false)                  part_000:50
  result,               \* useState<TranslationResult|null> part_000:51
  visualType,           \* part_000:53
  visualContent,        \* part_000:54
  isGeneratingVisual,   \* part_000:55
  hasAddedToFlashcards, \* part_000:57
  activeAudioId,        \* part_000:60
  loadingAudioId,       \* part_000:61
  useAltVoice,          \* part_000:62
  isChatOpen,           \* part_000:65
  chatMessages,         \* part_000:66
  chatInput,            \* part_000:67
  isChatLoading,        \* part_000:68
  chatCalls,            \* handleSendMessage invocations awaiting chatWithAI: the
                        \* message, context and history passed; history: how many
                        \* searches had started when it was made (lookup)
  nChat,                \* how many handleSendMessage invocations passed the guard
  search,               \* the handleSearch invocations: where each is suspended (pc),
                        \* its captured inputText (text) and simpleTranslation (simple);
                        \* history: whether its translate response was applied
                        \* (observed) and how its getRichContext ended (outcome)
  nSearch,              \* how many handleSearch invocations passed the input guard
  visualCalls,          \* handleGenerateVisual invocations awaiting the backend
  nVisual,              \* how many handleGenerateVisual invocations were made
  speechCalls,          \* generateSpeech invocations awaiting the backend
  audioCache,           \* geminiService.ts:15
  audioContext,         \* geminiService.ts:18  "none" | "suspended" | "running"
  currentSource,        \* geminiService.ts:19  0 = null, else the source node
  unit,                 \* the AudioBufferSourceNode each playAudio call created
  play,                 \* the handlePlayAudio invocations and where each is suspended;
                        \* history: how many searches had started when it was made
                        \* (lookup) and how often its onEnded callback ran (ended)
  nPlay,                \* how many handlePlayAudio invocations went on to synthesize
  lastSynth,            \* history: per cache key, the payload its latest synthesis returned
  flashcards,           \* useState<Flashcard[]>([])        App.tsx:17
  storage,              \* localStorage item 'lingoflow_flashcards_v2': Null or Some(text)
  lastStoreOp,          \* history: the last addFlashcard / removeFlashcard call, its
                        \* argument and the collection it was applied to
  clock,                \* the reading Date.now() returns
  app,                  \* App's life cycle: "start" (rendered, effects not yet run),
                        \* "loaded", "rendering", "mounted", or "crashed"
  loaded                \* the value the load effect passed to setFlashcards, until the
                        \* next render applies it: Null or Some(value)

vars == <<inputText, isSearching, result, visualType, visualContent,
          isGeneratingVisual, hasAddedToFlashcards, activeAudioId,
          loadingAudioId, useAltVoice, chatMessages, search, nSearch,
          visualCalls, nVisual, speechCalls, audioCache, audioContext,
          currentSource, unit, play, nPlay, lastSynth, flashcards, storage,
          lastStoreOp, clock, app, loaded, isChatOpen, chatInput,
          isChatLoading, chatCalls, nChat>>

(***************************************************************************)
(* Bounds of the model.                                                    *)
(***************************************************************************)
MaxSearches == 2
MaxPlays == 2
MaxVisuals == 3
MaxCardIds == 2
MaxClock == 2
MaxChats == 2

SearchIds == 1..MaxSearches
PlayIds == 1..MaxPlays

(***************************************************************************)
(* Values.                                                                 *)
(***************************************************************************)
EmptyString == <<>>
undefined == <<"undefined">>   \* the value undefined (as a template literal prints it)
NullId == "null"
Null == <<>>
Some(v) == <<v>>

InputTexts == {<<>>, <<" ">>, <<"a">>, <<"b">>}
Payloads == {"pcm1", "pcm2"}
NoAudio == "null"

(***************************************************************************)
(* A payload playAudio cannot decode: atob rejects it (decodeBase64,       *)
(* geminiService.ts:31) or it has an odd number of bytes, which            *)
(* `new Int16Array(data.buffer)` rejects (decodeAudioData, line 47).       *)
(***************************************************************************)
BadPayloads == {"odd"}

Decodes(base64Audio) == base64Audio \notin BadPayloads

IMAGE == "IMAGE"
SVG == "SVG"

LANGUAGES ==
  << [code |-> "en", label |-> "English", defaultVoice |-> <<"Fenrir">>,
      altVoice |-> <<"Puck">>],
     [code |-> "zh-CN", label |-> "Chinese (Simplified)",
      defaultVoice |-> <<"Zephyr">>, altVoice |-> <<>>] >>

sourceLang == LANGUAGES[1]
targetLang == LANGUAGES[2]

(***************************************************************************)
(* Truthiness of a string-or-undefined value, and `v || ''`.               *)
(***************************************************************************)
Truthy(v) == v # EmptyString /\ v # undefined

OrEmpty(v) == IF Truthy(v) THEN v ELSE EmptyString

(***************************************************************************)
(* String.prototype.trim on token sequences.                               *)
(***************************************************************************)
IsSpace(c) == c = " "

RECURSIVE TrimStart(_)
TrimStart(s) ==
  IF s # <<>> /\ IsSpace(Head(s)) THEN TrimStart(Tail(s)) ELSE s

RECURSIVE TrimEnd(_)
TrimEnd(s) ==
  IF s # <<>> /\ IsSpace(s[Len(s)]) THEN TrimEnd(SubSeq(s, 1, Len(s) - 1)) ELSE s

Trim(s) == TrimEnd(TrimStart(s))

(***************************************************************************)
(* The backend's answers.  Each carries the subject it was asked about, so *)
(* that a value in result can be traced to the lookup that produced it.    *)
(***************************************************************************)
TranslateResponse(text) == <<"tr:">> \o text

RichResponse(text) ==
  [ definition            |-> <<"def:">> \o text,
    story                 |-> <<"story:">> \o text,
    translation           |-> <<"rtr:">> \o text,
    definitionTranslation |-> <<"deftr:">> \o text,
    storyTranslation      |-> <<"storytr:">> \o text ]

ResultFields ==
  {"translation", "definition", "story", "definitionTranslation", "storyTranslation"}

(***************************************************************************)
(* What getRichContext can return (geminiService.ts:158): the parsed       *)
(* response text, or {} when the text is empty; nothing compares it with   *)
(* the response schema, so any of the five properties may be missing and   *)
(* then reads as undefined.                                                *)
(***************************************************************************)
RichContextReturns(text) ==
  {[f \in ResultFields |-> IF f \in present THEN RichResponse(text)[f] ELSE undefined] :
     present \in SUBSET ResultFields}

SchemaValid(richData) == \A f \in ResultFields : richData[f] # undefined

ImageResponse(subject) == <<"data:image/png;base64,">> \o subject
SvgResponse(subject) == <<"<svg">> \o subject

EmptyResult ==
  [ translation           |-> EmptyString,
    definition            |-> EmptyString,
    story                 |-> EmptyString,
    definitionTranslation |-> EmptyString,
    storyTranslation      |-> EmptyString ]

(***************************************************************************)
(* ExploreView.getVoiceForLang.  Array.find returns the first match.       *)
(***************************************************************************)
getVoiceForLang(langCode) ==
  LET langs == <<sourceLang, targetLang>>
      found == {i \in 1..2 : langs[i].code = langCode}
  IN IF found = {} THEN <<"Puck">>
     ELSE LET langOption == langs[CHOOSE i \in found : \A j \in found : i <= j]
          IN IF langCode = "en"
             THEN IF useAltVoice /\ langOption.altVoice # <<>>
                  THEN langOption.altVoice
                  ELSE langOption.defaultVoice
             ELSE langOption.defaultVoice

(***************************************************************************)
(* geminiService.generateSpeech up to its await: the cache key, the cache  *)
(* test, and the backend call a miss issues.  A call in flight is          *)
(* identified by who made it: a pre-warm of handleSearch invocation req    *)
(* for one of its four texts, or handlePlayAudio invocation req.           *)
(***************************************************************************)
CacheKey(text, voiceName) == text \o <<"-">> \o voiceName

CacheHas(cacheKey) == cacheKey \in DOMAIN audioCache

CacheSet(cache, cacheKey, base64Audio) ==
  [k \in DOMAIN cache \cup {cacheKey} |->
     IF k = cacheKey THEN base64Audio ELSE cache[k]]

SpeechCall(cacheKey, kind, req, slot) ==
  [key |-> cacheKey, kind |-> kind, req |-> req, slot |-> slot]

generateSpeech_NoCacheTest(calls, text, voiceName, kind, req, slot) ==
  calls \cup {SpeechCall(CacheKey(text, voiceName), kind, req, slot)}

generateSpeech(calls, text, voiceName, kind, req, slot) ==
  IF CacheHas(CacheKey(text, voiceName))
  THEN calls
  ELSE calls \cup {SpeechCall(CacheKey(text, voiceName), kind, req, slot)}

(***************************************************************************)
(* geminiService.stopAudio: source.stop() ends the unit's sound at once    *)
(* and queues its ended event ("stopping"); on a unit that already ended   *)
(* it changes nothing.  The handle is emptied.                             *)
(***************************************************************************)
StoppedUnits ==
  IF currentSource # 0
  THEN [unit EXCEPT ![currentSource] = IF @ = "playing" THEN "stopping" ELSE @]
  ELSE unit

stopAudio_KeepsHandle ==
  /\ unit' = StoppedUnits
  /\ currentSource' = currentSource

stopAudio ==
  /\ unit' = StoppedUnits
  /\ currentSource' = 0

(***************************************************************************)
(* The event loop: a continuation queued by an await on an already settled *)
(* promise (playAudio's await of decodeAudioData) is a microtask; no click,*)
(* key press, network completion or media event is handled before it ran.  *)
(***************************************************************************)
MicrotaskPending == \E r \in PlayIds : play[r].pc = "decode"

(***************************************************************************)
(* geminiService.playAudio up to its first await, for the handlePlayAudio  *)
(* invocation r whose record becomes rec.  getAudioContext creates the     *)
(* context on first use; whether the browser hands it out suspended is the *)
(* platform's choice.                                                      *)
(***************************************************************************)
ContextStates ==
  IF audioContext = "none" THEN {"suspended", "running"} ELSE {audioContext}

playAudio(r, rec) ==
  \E ctx \in ContextStates :
    /\ stopAudio
    /\ audioContext' = ctx
    /\ play' = [play EXCEPT ![r] =
                  [rec EXCEPT !.pc = IF ctx = "suspended" THEN "resume" ELSE "decode"]]

(***************************************************************************)
(* The onEnded callback handlePlayAudio passes to playAudio (229-231).     *)
(***************************************************************************)
onEnded(elementId) ==
  activeAudioId' = IF activeAudioId = elementId THEN NullId ELSE activeAudioId

(***************************************************************************)
(* Flashcards (types.ts:6-25).  An id is the decimal text of a clock       *)
(* reading (Date.now().toString(), part_000:263); an optional property     *)
(* that is undefined is Null.                                              *)
(***************************************************************************)
DigitChars == <<"0", "1", "2", "3", "4", "5", "6", "7", "8", "9">>

RECURSIVE toString(_)
toString(n) ==
  IF n < 10 THEN <<DigitChars[n + 1]>>
  ELSE toString(n \div 10) \o <<DigitChars[(n % 10) + 1]>>

CardIds == {toString(n) : n \in 1..MaxCardIds}
CardTexts == {<<"a">>, <<"A">>, <<"a", "b">>, <<"A", "b">>, <<"b">>}

Card(id, sourceText) ==
  [ id                    |-> id,
    sourceText            |-> sourceText,
    definition            |-> RichResponse(sourceText).definition,
    story                 |-> RichResponse(sourceText).story,
    translation           |-> TranslateResponse(sourceText),
    definitionTranslation |-> RichResponse(sourceText).definitionTranslation,
    storyTranslation      |-> RichResponse(sourceText).storyTranslation,
    targetLangCode        |-> targetLang.code,
    sourceLangCode        |-> sourceLang.code,
    createdAt             |-> 1,
    visualType            |-> IMAGE,
    visualContent         |-> Null ]

Cards == {Card(id, t) : id \in CardIds, t \in CardTexts}

(***************************************************************************)
(* String.prototype.toLowerCase on token sequences.                        *)
(***************************************************************************)
ToLowerChar(c) ==
  IF c = "A" THEN "a" ELSE IF c = "B" THEN "b" ELSE c

ToLowerCase(s) == [i \in 1..Len(s) |-> ToLowerChar(s[i])]

(***************************************************************************)
(* JSON.stringify of the collection (App.tsx:33): an array text whose      *)
(* items hold the properties of each card that are not undefined.          *)
(***************************************************************************)
DefinedKeys(card) == {k \in DOMAIN card : ~(k = "visualContent" /\ card[k] = Null)}

JSONstringify(cards) ==
  [ kind  |-> "array",
    items |-> [i \in 1..Len(cards) |->
                 [k \in DefinedKeys(cards[i]) |-> cards[i][k]]] ]

(***************************************************************************)
(* Array.prototype.find (as a test), and Array.prototype.filter.           *)
(***************************************************************************)
FindsSourceText(cards, card) ==
  \E i \in 1..Len(cards) :
    ToLowerCase(cards[i].sourceText) = ToLowerCase(card.sourceText)

RECURSIVE FilterOutId(_, _)
FilterOutId(cards, id) ==
  IF cards = <<>> THEN <<>>
  ELSE IF Head(cards).id # id
       THEN <<Head(cards)>> \o FilterOutId(Tail(cards), id)
       ELSE FilterOutId(Tail(cards), id)

(***************************************************************************)
(* JSON.parse of the stored text (App.tsx:24): it throws on a text that is *)
(* not JSON; a property missing from a parsed item reads as undefined.     *)
(***************************************************************************)
FlashcardKeys == DOMAIN Card(EmptyString, EmptyString)

Parses(text) == text.kind # "garbage"

JSONparse(text) ==
  [ kind  |-> text.kind,
    items |-> [i \in 1..Len(text.items) |->
                 [k \in FlashcardKeys |->
                    IF k \in DOMAIN text.items[i] THEN text.items[i][k] ELSE Null]] ]

NoStoreOp == [op |-> "none", card |-> Null, id |-> EmptyString, before |-> <<>>]

(***************************************************************************)
(* Initial state: ExploreView's useState defaults, the module-level state  *)
(* of geminiService.ts, and App mounted on an empty localStorage (the save *)
(* effect of App.tsx:32-34 has written the empty collection).              *)
(***************************************************************************)
IdleSearch ==
  [pc |-> "idle", text |-> EmptyString, simple |-> EmptyString,
   observed |-> FALSE, outcome |-> "pending"]

IdlePlay ==
  [pc |-> "idle", id |-> NullId, key |-> EmptyString, data |-> NoAudio, hit |-> FALSE,
   lookup |-> 0, ended |-> 0]

InitBase ==
  /\ inputText = EmptyString
  /\ isSearching = FALSE
  /\ result = Null
  /\ visualType = IMAGE
  /\ visualContent = Null
  /\ isGeneratingVisual = FALSE
  /\ hasAddedToFlashcards = FALSE
  /\ activeAudioId = NullId
  /\ loadingAudioId = NullId
  /\ useAltVoice = FALSE
  /\ chatMessages = <<>>
  /\ search = [p \in SearchIds |-> IdleSearch]
  /\ nSearch = 0
  /\ visualCalls = {}
  /\ nVisual = 0
  /\ speechCalls = {}
  /\ audioCache = <<>>
  /\ audioContext = "none"
  /\ currentSource = 0
  /\ unit = [r \in PlayIds |-> "none"]
  /\ play = [r \in PlayIds |-> IdlePlay]
  /\ nPlay = 0
  /\ lastSynth = <<>>
  /\ flashcards = <<>>
  /\ loaded = Null
  /\ isChatOpen = FALSE
  /\ chatInput = EmptyString
  /\ isChatLoading = FALSE
  /\ chatCalls = {}
  /\ nChat = 0

Init ==
  /\ InitBase
  /\ lastStoreOp = NoStoreOp
  /\ clock = 1
  /\ storage = Some(JSONstringify(<<>>))
  /\ app = "mounted"

(***************************************************************************)
(* The same at the moment App was rendered for the first time and its      *)
(* effects have not run yet, for each content the localStorage item may    *)
(* have: none, an array text written by an earlier session, a text         *)
(* JSON.parse rejects, and the texts "null" and "{}".                      *)
(***************************************************************************)
StoredCollections ==
  { <<>>,
    <<Card(toString(1), <<"a">>)>>,
    <<Card(toString(2), <<"b">>), Card(toString(1), <<"a">>)>> }

GarbageText == [kind |-> "garbage", items |-> <<>>]
NullText == [kind |-> "null", items |-> <<>>]
ObjectText == [kind |-> "object", items |-> <<>>]

StoredSlots ==
  {Null} \cup {Some(JSONstringify(cards)) : cards \in StoredCollections}
         \cup {Some(GarbageText), Some(NullText), Some(ObjectText)}

InitStored ==
  /\ InitBase
  /\ lastStoreOp = NoStoreOp
  /\ clock = 1
  /\ storage \in StoredSlots
  /\ app = "start"

lookupVars == <<inputText, isSearching, result, hasAddedToFlashcards, chatMessages,
                search, nSearch>>
visualVars == <<visualType, visualContent, isGeneratingVisual, visualCalls, nVisual>>
playerVars == <<unit, currentSource, audioContext, play>>
audioIdVars == <<activeAudioId, loadingAudioId>>
cacheVars == <<audioCache, lastSynth>>
appVars == <<clock, app, loaded>>
chatVars == <<isChatOpen, chatInput, isChatLoading, chatCalls, nChat>>
storeVars == <<flashcards, storage, lastStoreOp, appVars>>

(***************************************************************************)
(* The input field's onChange (part_000:354).                              *)
(***************************************************************************)
setInputText(t) ==
  /\ ~MicrotaskPending
  /\ t # inputText
  /\ inputText' = t
  /\ UNCHANGED <<isSearching, result, hasAddedToFlashcards, chatMessages, search,
                 nSearch, visualVars, playerVars, audioIdVars, cacheVars,
                 speechCalls, nPlay, useAltVoice, storeVars, chatVars>>

(***************************************************************************)
(* Mutant of handleSearch: the guard tests the input without trimming it.  *)
(***************************************************************************)
handleSearch_NoTrim ==
  /\ ~MicrotaskPending
  /\ IF inputText = EmptyString
     THEN UNCHANGED vars
     ELSE /\ nSearch < MaxSearches
          /\ nSearch' = nSearch + 1
          /\ isSearching' = TRUE
          /\ hasAddedToFlashcards' = FALSE
          /\ chatMessages' = <<>>
          /\ stopAudio
          /\ activeAudioId' = NullId
          /\ loadingAudioId' = NullId
          /\ visualContent' = Null
          /\ result' = Some(EmptyResult)
          /\ search' = [search EXCEPT ![nSearch + 1] =
                          [IdleSearch EXCEPT !.pc = "translate", !.text = inputText]]
          /\ UNCHANGED <<inputText, visualType, isGeneratingVisual, visualCalls,
                         nVisual, speechCalls, audioContext, play, nPlay,
                         cacheVars, useAltVoice, storeVars, chatVars>>

(***************************************************************************)
(* Mutant of handleSearch: the skeleton is emitted only when there is no   *)
(* result yet, so a second search keeps showing the previous card.         *)
(***************************************************************************)
handleSearch_KeepsOldResult ==
  /\ ~MicrotaskPending
  /\ IF Trim(inputText) = EmptyString
     THEN UNCHANGED vars
     ELSE /\ nSearch < MaxSearches
          /\ nSearch' = nSearch + 1
          /\ isSearching' = TRUE
          /\ hasAddedToFlashcards' = FALSE
          /\ chatMessages' = <<>>
          /\ stopAudio
          /\ activeAudioId' = NullId
          /\ loadingAudioId' = NullId
          /\ visualContent' = Null
          /\ result' = IF result = Null THEN Some(EmptyResult) ELSE result
          /\ search' = [search EXCEPT ![nSearch + 1] =
                          [IdleSearch EXCEPT !.pc = "translate", !.text = inputText]]
          /\ UNCHANGED <<inputText, visualType, isGeneratingVisual, visualCalls,
                         nVisual, speechCalls, audioContext, play, nPlay,
                         cacheVars, useAltVoice, storeVars, chatVars>>

(***************************************************************************)
(* handleSearch, lines 130-154: the guard, the resets, the skeleton and    *)
(* the dispatch of translateTextSimple.  Reached from the Enter key        *)
(* (handleKeyDown, 280-285), which does not test isSearching.              *)
(***************************************************************************)
handleSearch ==
  /\ ~MicrotaskPending
  /\ IF Trim(inputText) = EmptyString
     THEN UNCHANGED vars
     ELSE /\ nSearch < MaxSearches
          /\ nSearch' = nSearch + 1
          /\ isSearching' = TRUE
          /\ hasAddedToFlashcards' = FALSE
          /\ chatMessages' = <<>>
          /\ stopAudio
          /\ activeAudioId' = NullId
          /\ loadingAudioId' = NullId
          /\ visualContent' = Null
          /\ result' = Some(EmptyResult)
          /\ search' = [search EXCEPT ![nSearch + 1] =
                          [IdleSearch EXCEPT !.pc = "translate", !.text = inputText]]
          /\ UNCHANGED <<inputText, visualType, isGeneratingVisual, visualCalls,
                         nVisual, speechCalls, audioContext, play, nPlay,
                         cacheVars, useAltVoice, storeVars, chatVars>>

(***************************************************************************)
(* handleSearch, lines 154-165: translateTextSimple settled with           *)
(* simpleTranslation ('' when it failed, geminiService.ts:110-114); the    *)
(* merge, the two pre-warms and the dispatch of getRichContext.            *)
(***************************************************************************)
translateSettled(p, simpleTranslation) ==
  /\ ~MicrotaskPending
  /\ search[p].pc = "translate"
  /\ result' = Some([result[1] EXCEPT !.translation = simpleTranslation])
  /\ LET voiceSource == getVoiceForLang(sourceLang.code)
         voiceTarget == getVoiceForLang(targetLang.code)
         c1 == generateSpeech(speechCalls, search[p].text, voiceSource,
                              "prewarm", p, "input")
     IN speechCalls' =
          IF simpleTranslation # EmptyString
          THEN generateSpeech(c1, simpleTranslation, voiceTarget,
                              "prewarm", p, "translation")
          ELSE c1
  /\ search' = [search EXCEPT ![p].pc = "rich", ![p].simple = simpleTranslation,
                               ![p].observed = TRUE]
  /\ UNCHANGED <<inputText, isSearching, hasAddedToFlashcards, chatMessages, nSearch,
                 visualVars, playerVars, audioIdVars, cacheVars, nPlay, useAltVoice,
                 storeVars, chatVars>>

(***************************************************************************)
(* handleGenerateVisual, lines 190-201: up to the await of the generation  *)
(* call.                                                                   *)
(***************************************************************************)
handleGenerateVisual(type, inputTxt) ==
  /\ visualType' = type
  /\ isGeneratingVisual' = TRUE
  /\ visualContent' = Null
  /\ nVisual' = nVisual + 1
  /\ visualCalls' = visualCalls \cup
       {[id |-> nVisual + 1, type |-> type, subject |-> inputTxt]}

(***************************************************************************)
(* Mutant of richSettled: the translation of the rich-context response     *)
(* always replaces the fast one.                                           *)
(***************************************************************************)
richSettled_PrefersRich(p, richData) ==
  /\ ~MicrotaskPending
  /\ search[p].pc = "rich"
  /\ result' = Some(
       [ translation           |-> richData.translation,
         definition            |-> richData.definition,
         story                 |-> richData.story,
         definitionTranslation |-> richData.definitionTranslation,
         storyTranslation      |-> richData.storyTranslation ])
  /\ handleGenerateVisual(IMAGE, search[p].text)
  /\ LET voiceSource == getVoiceForLang(sourceLang.code)
         c1 == generateSpeech(speechCalls, richData.definition, voiceSource,
                              "prewarm", p, "definition")
     IN speechCalls' = generateSpeech(c1, richData.story, voiceSource,
                                      "prewarm", p, "story")
  /\ isSearching' = FALSE
  /\ search' = [search EXCEPT ![p].pc = "done", ![p].outcome = "ok"]
  /\ UNCHANGED <<inputText, hasAddedToFlashcards, chatMessages, nSearch,
                 playerVars, audioIdVars, cacheVars, nPlay, useAltVoice, storeVars, chatVars>>

(***************************************************************************)
(* Mutant of richSettled: the pre-warms of line 161-162 are awaited, so    *)
(* the rich-context stage runs on only once they have settled.             *)
(***************************************************************************)
richSettled_AwaitsPrewarm(p, richData) ==
  /\ ~MicrotaskPending
  /\ search[p].pc = "rich"
  /\ \A c \in speechCalls : ~(c.kind = "prewarm" /\ c.req = p)
  /\ result' = Some(
       [ translation           |-> IF search[p].simple # EmptyString
                                   THEN search[p].simple
                                   ELSE richData.translation,
         definition            |-> richData.definition,
         story                 |-> richData.story,
         definitionTranslation |-> richData.definitionTranslation,
         storyTranslation      |-> richData.storyTranslation ])
  /\ handleGenerateVisual(IMAGE, search[p].text)
  /\ LET voiceSource == getVoiceForLang(sourceLang.code)
         c1 == generateSpeech(speechCalls, richData.definition, voiceSource,
                              "prewarm", p, "definition")
     IN speechCalls' = generateSpeech(c1, richData.story, voiceSource,
                                      "prewarm", p, "story")
  /\ isSearching' = FALSE
  /\ search' = [search EXCEPT ![p].pc = "done", ![p].outcome = "ok"]
  /\ UNCHANGED <<inputText, hasAddedToFlashcards, chatMessages, nSearch,
                 playerVars, audioIdVars, cacheVars, nPlay, useAltVoice, storeVars, chatVars>>

(***************************************************************************)
(* Mutant of richSettled: translate and rich-context dispatched together   *)
(* (the parallel variant the comment at line 152 mentions), so richData    *)
(* may arrive while translateTextSimple is still outstanding.              *)
(***************************************************************************)
richSettled_Parallel(p, richData) ==
  /\ ~MicrotaskPending
  /\ search[p].pc \in {"translate", "rich"}
  /\ result' = Some(
       [ translation           |-> IF search[p].simple # EmptyString
                                   THEN search[p].simple
                                   ELSE richData.translation,
         definition            |-> richData.definition,
         story                 |-> richData.story,
         definitionTranslation |-> richData.definitionTranslation,
         storyTranslation      |-> richData.storyTranslation ])
  /\ handleGenerateVisual(IMAGE, search[p].text)
  /\ LET voiceSource == getVoiceForLang(sourceLang.code)
         c1 == generateSpeech(speechCalls, richData.definition, voiceSource,
                              "prewarm", p, "definition")
     IN speechCalls' = generateSpeech(c1, richData.story, voiceSource,
                                      "prewarm", p, "story")
  /\ isSearching' = FALSE
  /\ search' = [search EXCEPT ![p].pc = "done", ![p].outcome = "ok"]
  /\ UNCHANGED <<inputText, hasAddedToFlashcards, chatMessages, nSearch,
                 playerVars, audioIdVars, cacheVars, nPlay, useAltVoice, storeVars, chatVars>>

(***************************************************************************)
(* handleSearch, lines 165-187: getRichContext returned richData; the full *)
(* replacement of result, the default visual, the two pre-warms, finally.  *)
(***************************************************************************)
richSettled(p, richData) ==
  /\ ~MicrotaskPending
  /\ search[p].pc = "rich"
  /\ result' = Some(
       [ translation           |-> IF search[p].simple # EmptyString
                                   THEN search[p].simple
                                   ELSE richData.translation,
         definition            |-> richData.definition,
         story                 |-> richData.story,
         definitionTranslation |-> richData.definitionTranslation,
         storyTranslation      |-> richData.storyTranslation ])
  /\ handleGenerateVisual(IMAGE, search[p].text)
  /\ LET voiceSource == getVoiceForLang(sourceLang.code)
         c1 == generateSpeech(speechCalls, richData.definition, voiceSource,
                              "prewarm", p, "definition")
     IN speechCalls' = generateSpeech(c1, richData.story, voiceSource,
                                      "prewarm", p, "story")
  /\ isSearching' = FALSE
  /\ search' = [search EXCEPT ![p].pc = "done", ![p].outcome = "ok"]
  /\ UNCHANGED <<inputText, hasAddedToFlashcards, chatMessages, nSearch,
                 playerVars, audioIdVars, cacheVars, nPlay, useAltVoice, storeVars, chatVars>>

(***************************************************************************)
(* Mutant of richFailed: the finally block is missing, so a failed         *)
(* rich-context call leaves the loading flag set.                          *)
(***************************************************************************)
richFailed_NoFinally(p) ==
  /\ ~MicrotaskPending
  /\ search[p].pc = "rich"
  /\ search' = [search EXCEPT ![p].pc = "done", ![p].outcome = "failed"]
  /\ UNCHANGED <<inputText, isSearching, result, hasAddedToFlashcards, chatMessages,
                 nSearch, visualVars, playerVars, audioIdVars, cacheVars, speechCalls,
                 nPlay, useAltVoice, storeVars, chatVars>>

(***************************************************************************)
(* handleSearch, lines 183-187: getRichContext threw (transport failure or *)
(* JSON.parse of a cut response); catch, finally.                          *)
(***************************************************************************)
richFailed(p) ==
  /\ ~MicrotaskPending
  /\ search[p].pc = "rich"
  /\ isSearching' = FALSE
  /\ search' = [search EXCEPT ![p].pc = "done", ![p].outcome = "failed"]
  /\ UNCHANGED <<inputText, result, hasAddedToFlashcards, chatMessages, nSearch,
                 visualVars, playerVars, audioIdVars, cacheVars, speechCalls,
                 nPlay, useAltVoice, storeVars, chatVars>>

(***************************************************************************)
(* handleGenerateVisual, lines 203-208: the generation call settled with   *)
(* content (non-null), with null, or by throwing ("throw").                *)
(***************************************************************************)
VisualOutcomes == {"content", "null", "throw"}

VisualResponse(v) ==
  IF v.type = IMAGE THEN ImageResponse(v.subject) ELSE SvgResponse(v.subject)

visualSettled(v, outcome) ==
  /\ ~MicrotaskPending
  /\ v \in visualCalls
  /\ visualCalls' = visualCalls \ {v}
  /\ visualContent' = IF outcome = "content"
                      THEN Some(VisualResponse(v))
                      ELSE visualContent
  /\ isGeneratingVisual' = FALSE
  /\ UNCHANGED <<lookupVars, visualType, nVisual, playerVars, audioIdVars,
                 cacheVars, speechCalls, nPlay, useAltVoice, storeVars, chatVars>>

(***************************************************************************)
(* The visual type buttons (465-476) and the refresh button (493-498) of   *)
(* the card, rendered once there is a result and never disabled: each      *)
(* calls handleGenerateVisual with the current inputText.                  *)
(***************************************************************************)
visualTypeButton(type) ==
  /\ ~MicrotaskPending
  /\ result # Null
  /\ nVisual < MaxVisuals
  /\ handleGenerateVisual(type, inputText)
  /\ UNCHANGED <<lookupVars, playerVars, audioIdVars, cacheVars, speechCalls,
                 nPlay, useAltVoice, storeVars, chatVars>>

(***************************************************************************)
(* The audio buttons ExploreView renders (renderAudioButton, 287-309, and  *)
(* its call sites 404-450): only with a result, only for non-empty text,   *)
(* the explanation and example blocks only once definition / story exist;  *)
(* a button is disabled while its identifier is loading.                   *)
(***************************************************************************)
AudioButtons ==
  IF result = Null THEN {}
  ELSE LET res == result[1]
           all ==
             {[text |-> inputText, langCode |-> sourceLang.code, id |-> "input"],
              [text |-> res.translation, langCode |-> targetLang.code,
               id |-> "translation"]}
             \cup (IF Truthy(res.definition)
                   THEN {[text |-> res.definition, langCode |-> sourceLang.code,
                          id |-> "definition"],
                         [text |-> res.definitionTranslation,
                          langCode |-> targetLang.code, id |-> "definitionTrans"]}
                   ELSE {})
             \cup (IF Truthy(res.story)
                   THEN {[text |-> res.story, langCode |-> sourceLang.code,
                          id |-> "story"],
                         [text |-> res.storyTranslation,
                          langCode |-> targetLang.code, id |-> "storyTrans"]}
                   ELSE {})
       IN {b \in all : Truthy(b.text) /\ b.id # loadingAudioId}

(***************************************************************************)
(* handlePlayAudio, lines 211-232.  A cache hit settles generateSpeech     *)
(* without a backend call, so the handler runs on to playAudio's first     *)
(* await in the same task; a miss suspends it at the await of line 223.    *)
(***************************************************************************)
handlePlayAudio(text, langCode, elementId) ==
  /\ ~MicrotaskPending
  /\ IF activeAudioId = elementId
     THEN /\ stopAudio
          /\ activeAudioId' = NullId
          /\ UNCHANGED <<lookupVars, visualVars, loadingAudioId, audioContext, play,
                         nPlay, cacheVars, speechCalls, useAltVoice, storeVars, chatVars>>
     ELSE /\ nPlay < MaxPlays
          /\ nPlay' = nPlay + 1
          /\ LET r == nPlay + 1
                 voice == getVoiceForLang(langCode)
                 cacheKey == CacheKey(text, voice)
                 rec == [pc |-> "synth", id |-> elementId, key |-> cacheKey,
                         data |-> NoAudio, hit |-> CacheHas(cacheKey),
                         lookup |-> nSearch, ended |-> 0]
             IN /\ speechCalls' = generateSpeech(speechCalls, text, voice,
                                                 "play", r, elementId)
                /\ IF CacheHas(cacheKey)
                   THEN /\ loadingAudioId' = NullId
                        /\ activeAudioId' = elementId
                        /\ playAudio(r, [rec EXCEPT !.data = audioCache[cacheKey]])
                   ELSE /\ activeAudioId' = NullId
                        /\ loadingAudioId' = elementId
                        /\ play' = [play EXCEPT ![r] = rec]
                        /\ UNCHANGED <<unit, currentSource, audioContext>>
          /\ UNCHANGED <<lookupVars, visualVars, cacheVars, useAltVoice, storeVars, chatVars>>

(***************************************************************************)
(* handlePlayAudio, lines 225-232: generateSpeech returned audioData to    *)
(* invocation r.                                                           *)
(***************************************************************************)
handlePlayAudioResumed(r, audioData) ==
  /\ loadingAudioId' = NullId
  /\ IF audioData # NoAudio
     THEN /\ activeAudioId' = play[r].id
          /\ playAudio(r, [play[r] EXCEPT !.data = audioData])
     ELSE /\ play' = [play EXCEPT ![r].pc = "done"]
          /\ UNCHANGED <<activeAudioId, unit, currentSource, audioContext>>

(***************************************************************************)
(* Mutant of generateSpeechSettled: the payload is returned to the caller  *)
(* but not stored.                                                         *)
(***************************************************************************)
generateSpeechSettled_NoStore(c, base64Audio) ==
  /\ ~MicrotaskPending
  /\ c \in speechCalls
  /\ speechCalls' = speechCalls \ {c}
  /\ audioCache' = audioCache
  /\ lastSynth' = IF base64Audio # NoAudio
                  THEN [k \in DOMAIN lastSynth \cup {c.key} |->
                          IF k = c.key THEN base64Audio ELSE lastSynth[k]]
                  ELSE lastSynth
  /\ IF c.kind = "play"
     THEN handlePlayAudioResumed(c.req, base64Audio)
     ELSE UNCHANGED <<playerVars, audioIdVars>>
  /\ UNCHANGED <<lookupVars, visualVars, nPlay, useAltVoice, storeVars, chatVars>>

(***************************************************************************)
(* generateSpeech, lines 265-274: the backend call c settled; base64Audio  *)
(* is the payload, or NoAudio for a response without audio or a failure.   *)
(* The caller's continuation runs in the same task.                        *)
(***************************************************************************)
generateSpeechSettled(c, base64Audio) ==
  /\ ~MicrotaskPending
  /\ c \in speechCalls
  /\ speechCalls' = speechCalls \ {c}
  /\ audioCache' = IF base64Audio # NoAudio
                   THEN CacheSet(audioCache, c.key, base64Audio)
                   ELSE audioCache
  /\ lastSynth' = IF base64Audio # NoAudio
                  THEN [k \in DOMAIN lastSynth \cup {c.key} |->
                          IF k = c.key THEN base64Audio ELSE lastSynth[k]]
                  ELSE lastSynth
  /\ IF c.kind = "play"
     THEN handlePlayAudioResumed(c.req, base64Audio)
     ELSE UNCHANGED <<playerVars, audioIdVars>>
  /\ UNCHANGED <<lookupVars, visualVars, nPlay, useAltVoice, storeVars, chatVars>>

(***************************************************************************)
(* playAudio, lines 75-92, after its awaits.                               *)
(***************************************************************************)
playAudioResumed(r) ==
  /\ play[r].pc = "resume"
  /\ audioContext' = "running"
  /\ play' = [play EXCEPT ![r].pc = "decode"]
  /\ UNCHANGED <<lookupVars, visualVars, audioIdVars, cacheVars, speechCalls,
                 unit, currentSource, nPlay, useAltVoice, storeVars, chatVars>>

(***************************************************************************)
(* Mutant of playAudioResumeFailed: the catch block logs the failure but   *)
(* does not call onEnded.                                                  *)
(***************************************************************************)
playAudioResumeFailed_Silent(r) ==
  /\ ~MicrotaskPending
  /\ play[r].pc = "resume"
  /\ audioContext = "suspended"
  /\ play' = [play EXCEPT ![r].pc = "done"]
  /\ UNCHANGED <<lookupVars, visualVars, audioIdVars, cacheVars, speechCalls,
                 unit, currentSource, audioContext, nPlay, useAltVoice, storeVars, chatVars>>

(***************************************************************************)
(* playAudio, lines 93-96: ctx.resume() rejected; the catch block calls    *)
(* onEnded.                                                                *)
(***************************************************************************)
playAudioResumeFailed(r) ==
  /\ ~MicrotaskPending
  /\ play[r].pc = "resume"
  /\ audioContext = "suspended"
  /\ onEnded(play[r].id)
  /\ play' = [play EXCEPT ![r].pc = "done", ![r].ended = @ + 1]
  /\ UNCHANGED <<lookupVars, visualVars, loadingAudioId, cacheVars, speechCalls,
                 unit, currentSource, audioContext, nPlay, useAltVoice, storeVars, chatVars>>

(***************************************************************************)
(* playAudio, lines 79-80 and 93-96: decodeBase64 or decodeAudioData threw *)
(* on the payload; the catch block calls onEnded.  No source was created.  *)
(***************************************************************************)
playAudioDecodeFailed(r) ==
  /\ play[r].pc = "decode"
  /\ ~Decodes(play[r].data)
  /\ onEnded(play[r].id)
  /\ play' = [play EXCEPT ![r].pc = "done", ![r].ended = @ + 1]
  /\ UNCHANGED <<lookupVars, visualVars, loadingAudioId, cacheVars, speechCalls,
                 unit, currentSource, audioContext, nPlay, useAltVoice, storeVars,
                 chatVars>>

playAudioStarted(r) ==
  /\ play[r].pc = "decode"
  /\ Decodes(play[r].data)
  /\ unit' = [unit EXCEPT ![r] = "playing"]
  /\ currentSource' = r
  /\ play' = [play EXCEPT ![r].pc = "done"]
  /\ UNCHANGED <<lookupVars, visualVars, audioIdVars, cacheVars, speechCalls,
                 audioContext, nPlay, useAltVoice, storeVars, chatVars>>

(***************************************************************************)
(* source.onended, lines 86-89: the ended event of the unit of invocation  *)
(* r, dispatched when it plays to its end or after stop() was called on it.*)
(***************************************************************************)
sourceOnEnded(r) ==
  /\ ~MicrotaskPending
  /\ unit[r] \in {"playing", "stopping"}
  /\ unit' = [unit EXCEPT ![r] = "ended"]
  /\ currentSource' = 0
  /\ onEnded(play[r].id)
  /\ play' = [play EXCEPT ![r].ended = @ + 1]
  /\ UNCHANGED <<lookupVars, visualVars, loadingAudioId, cacheVars, speechCalls,
                 audioContext, nPlay, useAltVoice, storeVars, chatVars>>

(***************************************************************************)
(* Mutant of saveEffect: the item is written only when the collection      *)
(* grew.                                                                   *)
(***************************************************************************)
saveEffect_OnGrowthOnly ==
  storage' = IF Len(flashcards') > Len(flashcards)
             THEN Some(JSONstringify(flashcards'))
             ELSE storage

(***************************************************************************)
(* The save effect (App.tsx:32-34), run after a render in which flashcards *)
(* changed.                                                                *)
(***************************************************************************)
saveEffect ==
  storage' = IF flashcards' # flashcards
             THEN Some(JSONstringify(flashcards'))
             ELSE storage

(***************************************************************************)
(* Mutant of addFlashcard: the duplicate test compares sourceText as it    *)
(* is, without toLowerCase.                                                *)
(***************************************************************************)
addFlashcard_CaseSensitive(card) ==
  /\ ~MicrotaskPending
  /\ flashcards' = IF \E i \in 1..Len(flashcards) :
                        flashcards[i].sourceText = card.sourceText
                   THEN flashcards
                   ELSE <<card>> \o flashcards
  /\ saveEffect
  /\ lastStoreOp' = [op |-> "add", card |-> Some(card), id |-> EmptyString,
                     before |-> flashcards]
  /\ UNCHANGED <<lookupVars, visualVars, playerVars, audioIdVars, cacheVars,
                 speechCalls, nPlay, useAltVoice, appVars, chatVars>>

(***************************************************************************)
(* Mutant of addFlashcard: the new card is appended, not prepended.        *)
(***************************************************************************)
addFlashcard_Appends(card) ==
  /\ ~MicrotaskPending
  /\ flashcards' = IF FindsSourceText(flashcards, card)
                   THEN flashcards
                   ELSE flashcards \o <<card>>
  /\ saveEffect
  /\ lastStoreOp' = [op |-> "add", card |-> Some(card), id |-> EmptyString,
                     before |-> flashcards]
  /\ UNCHANGED <<lookupVars, visualVars, playerVars, audioIdVars, cacheVars,
                 speechCalls, nPlay, useAltVoice, appVars, chatVars>>

(***************************************************************************)
(* App.addFlashcard (App.tsx:36-41) and the save effect it triggers.       *)
(***************************************************************************)
addFlashcard(card) ==
  /\ ~MicrotaskPending
  /\ flashcards' = IF FindsSourceText(flashcards, card)
                   THEN flashcards
                   ELSE <<card>> \o flashcards
  /\ saveEffect
  /\ lastStoreOp' = [op |-> "add", card |-> Some(card), id |-> EmptyString,
                     before |-> flashcards]
  /\ UNCHANGED <<lookupVars, visualVars, playerVars, audioIdVars, cacheVars,
                 speechCalls, nPlay, useAltVoice, appVars, chatVars>>

(***************************************************************************)
(* Mutant of removeFlashcard: the filter stops at the first card it        *)
(* removes and drops the cards after it.                                   *)
(***************************************************************************)
removeFlashcard_Truncates(id) ==
  /\ ~MicrotaskPending
  /\ LET hits == {i \in 1..Len(flashcards) : flashcards[i].id = id}
     IN flashcards' = IF hits = {} THEN flashcards
                      ELSE SubSeq(flashcards, 1,
                                  (CHOOSE i \in hits : \A j \in hits : i <= j) - 1)
  /\ saveEffect
  /\ lastStoreOp' = [op |-> "remove", card |-> Null, id |-> id, before |-> flashcards]
  /\ UNCHANGED <<lookupVars, visualVars, playerVars, audioIdVars, cacheVars,
                 speechCalls, nPlay, useAltVoice, appVars, chatVars>>

(***************************************************************************)
(* App.removeFlashcard (App.tsx:43-45) and the save effect it triggers.    *)
(***************************************************************************)
removeFlashcard(id) ==
  /\ ~MicrotaskPending
  /\ flashcards' = FilterOutId(flashcards, id)
  /\ saveEffect
  /\ lastStoreOp' = [op |-> "remove", card |-> Null, id |-> id, before |-> flashcards]
  /\ UNCHANGED <<lookupVars, visualVars, playerVars, audioIdVars, cacheVars,
                 speechCalls, nPlay, useAltVoice, appVars, chatVars>>

(***************************************************************************)
(* App's mount.  The load effect (App.tsx:20-29) reads the item and, when  *)
(* it parses, passes the parsed value to setFlashcards; the save effect    *)
(* (32-34) of the same render then writes the collection of that render,   *)
(* which is empty; the render with the loaded value follows, and its save  *)
(* effect.  FlashcardView (App.tsx:77) reads flashcards.length and calls   *)
(* flashcards.map: with a value that is not an array the render throws and *)
(* React, having no error boundary, unmounts the application ("crashed";   *)
(* the model then keeps flashcards at the empty sequence).                 *)
(***************************************************************************)
loadEffect ==
  /\ app = "start"
  /\ loaded' = IF storage # Null /\ Parses(storage[1])
               THEN Some(JSONparse(storage[1]))
               ELSE Null
  /\ app' = "loaded"
  /\ UNCHANGED <<lookupVars, visualVars, playerVars, audioIdVars, cacheVars,
                 speechCalls, nPlay, useAltVoice, flashcards, storage, lastStoreOp,
                 clock, chatVars>>

saveEffectOnMount ==
  /\ app = "loaded"
  /\ storage' = Some(JSONstringify(flashcards))
  /\ app' = IF loaded = Null THEN "mounted" ELSE "rendering"
  /\ UNCHANGED <<lookupVars, visualVars, playerVars, audioIdVars, cacheVars,
                 speechCalls, nPlay, useAltVoice, flashcards, lastStoreOp, clock,
                 loaded, chatVars>>

renderLoaded ==
  /\ app = "rendering"
  /\ IF loaded[1].kind = "array"
     THEN /\ flashcards' = loaded[1].items
          /\ storage' = Some(JSONstringify(flashcards'))
          /\ app' = "mounted"
     ELSE /\ app' = "crashed"
          /\ UNCHANGED <<flashcards, storage>>
  /\ loaded' = Null
  /\ UNCHANGED <<lookupVars, visualVars, playerVars, audioIdVars, cacheVars,
                 speechCalls, nPlay, useAltVoice, lastStoreOp, clock, chatVars>>

(***************************************************************************)
(* The page is reloaded: all state of the page is lost, the localStorage   *)
(* item stays, and App is rendered anew.                                   *)
(***************************************************************************)
reload ==
  /\ app # "start"
  /\ inputText' = EmptyString
  /\ isSearching' = FALSE
  /\ result' = Null
  /\ visualType' = IMAGE
  /\ visualContent' = Null
  /\ isGeneratingVisual' = FALSE
  /\ hasAddedToFlashcards' = FALSE
  /\ activeAudioId' = NullId
  /\ loadingAudioId' = NullId
  /\ useAltVoice' = FALSE
  /\ chatMessages' = <<>>
  /\ search' = [p \in SearchIds |-> IdleSearch]
  /\ nSearch' = 0
  /\ visualCalls' = {}
  /\ nVisual' = 0
  /\ speechCalls' = {}
  /\ audioCache' = <<>>
  /\ audioContext' = "none"
  /\ currentSource' = 0
  /\ unit' = [r \in PlayIds |-> "none"]
  /\ play' = [r \in PlayIds |-> IdlePlay]
  /\ nPlay' = 0
  /\ lastSynth' = <<>>
  /\ flashcards' = <<>>
  /\ loaded' = Null
  /\ isChatOpen' = FALSE
  /\ chatInput' = EmptyString
  /\ isChatLoading' = FALSE
  /\ chatCalls' = {}
  /\ nChat' = 0
  /\ app' = "start"
  /\ lastStoreOp' = [op |-> IF app = "mounted" THEN "reload" ELSE "abort",
                     card |-> Null, id |-> EmptyString, before |-> flashcards]
  /\ UNCHANGED <<storage, clock>>

(***************************************************************************)
(* The chat overlay.  Its button is rendered once there is a result        *)
(* (part_000:537-547), its close button at 569; the chat input's onChange  *)
(* at 606.                                                                 *)
(***************************************************************************)
ChatTexts == {<<>>, <<" ">>, <<"q1">>, <<"q2">>}

ChatIds == 1..MaxChats

ChatResponse(message) == <<"re:">> \o message

ChatMessage(role, text) == [role |-> role, text |-> text]

openChat ==
  /\ ~MicrotaskPending
  /\ result # Null
  /\ ~isChatOpen
  /\ isChatOpen' = TRUE
  /\ UNCHANGED <<lookupVars, visualVars, playerVars, audioIdVars, cacheVars,
                 speechCalls, nPlay, useAltVoice, storeVars, chatInput,
                 isChatLoading, chatCalls, nChat>>

closeChat ==
  /\ ~MicrotaskPending
  /\ isChatOpen
  /\ isChatOpen' = FALSE
  /\ UNCHANGED <<lookupVars, visualVars, playerVars, audioIdVars, cacheVars,
                 speechCalls, nPlay, useAltVoice, storeVars, chatInput,
                 isChatLoading, chatCalls, nChat>>

setChatInput(t) ==
  /\ ~MicrotaskPending
  /\ isChatOpen
  /\ t # chatInput
  /\ chatInput' = t
  /\ UNCHANGED <<lookupVars, visualVars, playerVars, audioIdVars, cacheVars,
                 speechCalls, nPlay, useAltVoice, storeVars, isChatOpen,
                 isChatLoading, chatCalls, nChat>>

(***************************************************************************)
(* chatWithAI's arguments as handleSendMessage builds them (249-251): the  *)
(* context from inputText and result, apiHistory from the chatMessages of  *)
(* the render the handler belongs to, one entry per message, role and text *)
(* kept.                                                                   *)
(***************************************************************************)
ChatContext ==
  [word |-> inputText, definition |-> result[1].definition, story |-> result[1].story]

ApiHistory(messages) ==
  [i \in 1..Len(messages) |-> [role |-> messages[i].role, text |-> messages[i].text]]

(***************************************************************************)
(* Mutant of handleSendMessage: apiHistory is built after the user message *)
(* was appended, so the current message is part of the history.            *)
(***************************************************************************)
handleSendMessage_HistoryWithCurrent ==
  /\ ~MicrotaskPending
  /\ isChatOpen
  /\ IF Trim(chatInput) = EmptyString \/ result = Null
     THEN UNCHANGED vars
     ELSE /\ nChat < MaxChats
          /\ nChat' = nChat + 1
          /\ chatInput' = EmptyString
          /\ chatMessages' = Append(chatMessages, ChatMessage("user", chatInput))
          /\ isChatLoading' = TRUE
          /\ chatCalls' = chatCalls \cup
               {[id |-> nChat + 1, message |-> chatInput, context |-> ChatContext,
                 history |-> ApiHistory(chatMessages'), lookup |-> nSearch]}
          /\ UNCHANGED <<inputText, isSearching, result, hasAddedToFlashcards, search,
                         nSearch, visualVars, playerVars, audioIdVars, cacheVars,
                         speechCalls, nPlay, useAltVoice, storeVars, isChatOpen>>

(***************************************************************************)
(* handleSendMessage, lines 240-251: up to the await of chatWithAI.        *)
(* Reached from the Send button (disabled while isChatLoading, 613) and    *)
(* from the Enter key of the chat input (607), which does not test         *)
(* isChatLoading.                                                          *)
(***************************************************************************)
handleSendMessage ==
  /\ ~MicrotaskPending
  /\ isChatOpen
  /\ IF Trim(chatInput) = EmptyString \/ result = Null
     THEN UNCHANGED vars
     ELSE /\ nChat < MaxChats
          /\ nChat' = nChat + 1
          /\ chatInput' = EmptyString
          /\ chatMessages' = Append(chatMessages, ChatMessage("user", chatInput))
          /\ isChatLoading' = TRUE
          /\ chatCalls' = chatCalls \cup
               {[id |-> nChat + 1, message |-> chatInput, context |-> ChatContext,
                 history |-> ApiHistory(chatMessages), lookup |-> nSearch]}
          /\ UNCHANGED <<inputText, isSearching, result, hasAddedToFlashcards, search,
                         nSearch, visualVars, playerVars, audioIdVars, cacheVars,
                         speechCalls, nPlay, useAltVoice, storeVars, isChatOpen>>

(***************************************************************************)
(* handleSendMessage, lines 251-257: chatWithAI returned aiResponseText    *)
(* (result.text || "", geminiService.ts:181); the append, finally.         *)
(***************************************************************************)
chatSettled(c, aiResponseText) ==
  /\ ~MicrotaskPending
  /\ c \in chatCalls
  /\ chatCalls' = chatCalls \ {c}
  /\ chatMessages' = Append(chatMessages, ChatMessage("model", aiResponseText))
  /\ isChatLoading' = FALSE
  /\ UNCHANGED <<inputText, isSearching, result, hasAddedToFlashcards, search,
                 nSearch, visualVars, playerVars, audioIdVars, cacheVars,
                 speechCalls, nPlay, useAltVoice, storeVars, isChatOpen, chatInput,
                 nChat>>

(***************************************************************************)
(* handleSendMessage, lines 253-257: chatWithAI threw; catch, finally.     *)
(***************************************************************************)
chatFailed(c) ==
  /\ ~MicrotaskPending
  /\ c \in chatCalls
  /\ chatCalls' = chatCalls \ {c}
  /\ isChatLoading' = FALSE
  /\ UNCHANGED <<lookupVars, visualVars, playerVars, audioIdVars, cacheVars,
                 speechCalls, nPlay, useAltVoice, storeVars, isChatOpen, chatInput,
                 nChat>>

(***************************************************************************)
(* Date.now() (part_000:263, 272): the clock may have advanced between two *)
(* readings, or not.                                                       *)
(***************************************************************************)
tick ==
  /\ clock < MaxClock
  /\ clock' = clock + 1
  /\ UNCHANGED <<lookupVars, visualVars, playerVars, audioIdVars, cacheVars,
                 speechCalls, nPlay, useAltVoice, flashcards, storage, lastStoreOp,
                 app, loaded, chatVars>>

ClockIds == {toString(n) : n \in 1..MaxClock}

(***************************************************************************)
(* The Add to Flashcards button (514-517) and handleAddToFlashcards        *)
(* (260-278), with App.addFlashcard (onAddFlashcard, App.tsx:36-41) and    *)
(* the save effect it triggers.                                            *)
(***************************************************************************)
AddButtonEnabled ==
  /\ result # Null
  /\ ~hasAddedToFlashcards
  /\ Truthy(result[1].definition)

handleAddToFlashcards ==
  /\ ~MicrotaskPending
  /\ AddButtonEnabled
  /\ LET newCard ==
           [ id                    |-> toString(clock),
             sourceText            |-> inputText,
             definition            |-> OrEmpty(result[1].definition),
             story                 |-> OrEmpty(result[1].story),
             translation           |-> OrEmpty(result[1].translation),
             definitionTranslation |-> OrEmpty(result[1].definitionTranslation),
             storyTranslation      |-> OrEmpty(result[1].storyTranslation),
             targetLangCode        |-> targetLang.code,
             sourceLangCode        |-> sourceLang.code,
             createdAt             |-> clock,
             visualType            |-> visualType,
             visualContent         |-> visualContent ]
     IN /\ flashcards' = IF FindsSourceText(flashcards, newCard)
                         THEN flashcards
                         ELSE <<newCard>> \o flashcards
        /\ lastStoreOp' = [op |-> "add", card |-> Some(newCard), id |-> EmptyString,
                           before |-> flashcards]
  /\ saveEffect
  /\ hasAddedToFlashcards' = TRUE
  /\ UNCHANGED <<inputText, isSearching, result, chatMessages, search, nSearch,
                 visualVars, playerVars, audioIdVars, cacheVars, speechCalls, nPlay,
                 useAltVoice, appVars, chatVars>>

Next ==
  \/ \E t \in InputTexts : setInputText(t)
  \/ handleSearch
  \/ \E p \in SearchIds : translateSettled(p, EmptyString)
  \/ \E p \in SearchIds : translateSettled(p, TranslateResponse(search[p].text))
  \/ \E p \in SearchIds : richSettled(p, RichResponse(search[p].text))
  \/ \E p \in SearchIds : richFailed(p)
  \/ \E v \in visualCalls, o \in VisualOutcomes : visualSettled(v, o)
  \/ \E type \in {IMAGE, SVG} : visualTypeButton(type)
  \/ \E b \in AudioButtons : handlePlayAudio(b.text, b.langCode, b.id)
  \/ \E c \in speechCalls, a \in Payloads \cup {NoAudio} : generateSpeechSettled(c, a)
  \/ \E r \in PlayIds : playAudioResumed(r)
  \/ \E r \in PlayIds : playAudioResumeFailed(r)
  \/ \E r \in PlayIds : playAudioStarted(r)
  \/ \E r \in PlayIds : sourceOnEnded(r)
  \/ \E card \in Cards : addFlashcard(card)
  \/ \E id \in CardIds : removeFlashcard(id)
  \/ handleAddToFlashcards
  \/ tick
  \/ loadEffect
  \/ saveEffectOnMount
  \/ renderLoaded
  \/ reload
  \/ openChat
  \/ closeChat
  \/ \E t \in ChatTexts : setChatInput(t)
  \/ handleSendMessage
  \/ \E c \in chatCalls : chatSettled(c, ChatResponse(c.message))
  \/ \E c \in chatCalls : chatSettled(c, EmptyString)
  \/ \E c \in chatCalls : chatFailed(c)
  \/ \E c \in speechCalls, a \in BadPayloads : generateSpeechSettled(c, a)
  \/ \E r \in PlayIds : playAudioDecodeFailed(r)

Spec == Init /\ [][Next]_vars

(***************************************************************************)
(* The lookup pipeline on its own: the user types and searches, the        *)
(* translate, rich-context and visual calls settle.  The pre-warm speech   *)
(* calls it issues stay in flight: their settling writes audioCache only,  *)
(* which no action of this specification reads except to decide whether a  *)
(* further pre-warm is issued.                                             *)
(***************************************************************************)
NextLookup ==
  \/ \E t \in InputTexts : setInputText(t)
  \/ handleSearch
  \/ \E p \in SearchIds : translateSettled(p, EmptyString)
  \/ \E p \in SearchIds : translateSettled(p, TranslateResponse(search[p].text))
  \/ \E p \in SearchIds : richSettled(p, RichResponse(search[p].text))
  \/ \E p \in SearchIds : richFailed(p)
  \/ \E v \in visualCalls, o \in VisualOutcomes : visualSettled(v, o)

SpecLookup == Init /\ [][NextLookup]_vars

(***************************************************************************)
(* The same, with each backend call of a lookup eventually settling (one   *)
(* way or the other), which is what the promises returned by               *)
(* translateTextSimple and getRichContext provide once the network layer   *)
(* answers or errors.                                                      *)
(***************************************************************************)
translateCompletes(p) ==
  translateSettled(p, EmptyString) \/ translateSettled(p, TranslateResponse(search[p].text))

richCompletes(p) ==
  richSettled(p, RichResponse(search[p].text)) \/ richFailed(p)

SpecLookupFair ==
  /\ SpecLookup
  /\ \A p \in SearchIds : WF_vars(translateCompletes(p))
  /\ \A p \in SearchIds : WF_vars(richCompletes(p))

(***************************************************************************)
(* Playback: one subject is looked up (twice at most) and the audio        *)
(* buttons of the card are clicked; the speech calls of the clicks settle  *)
(* and the units play.  Pre-warm calls stay in flight here; SpecCache      *)
(* settles them.                                                           *)
(***************************************************************************)
AudioTexts == {<<"a">>}

NextAudio ==
  \/ \E t \in AudioTexts : setInputText(t)
  \/ handleSearch
  \/ \E p \in SearchIds : translateSettled(p, TranslateResponse(search[p].text))
  \/ \E p \in SearchIds : richSettled(p, RichResponse(search[p].text))
  \/ \E b \in AudioButtons : handlePlayAudio(b.text, b.langCode, b.id)
  \/ \E c \in {x \in speechCalls : x.kind = "play"}, a \in Payloads \cup {NoAudio} :
        generateSpeechSettled(c, a)
  \/ \E r \in PlayIds : playAudioResumed(r)
  \/ \E r \in PlayIds : playAudioResumeFailed(r)
  \/ \E r \in PlayIds : playAudioStarted(r)
  \/ \E r \in PlayIds : sourceOnEnded(r)

SpecAudio == Init /\ [][NextAudio]_vars

(***************************************************************************)
(* The speech cache within one lookup: every generateSpeech call, pre-warm *)
(* or click, settles in any order.  The lookup ends at the rich-context    *)
(* failure, so the keys are those of the input and of its translation.     *)
(***************************************************************************)
firstSearch == nSearch = 0 /\ handleSearch

NextCache ==
  \/ \E t \in AudioTexts : setInputText(t)
  \/ firstSearch
  \/ \E p \in SearchIds : translateSettled(p, TranslateResponse(search[p].text))
  \/ \E p \in SearchIds : richFailed(p)
  \/ \E b \in AudioButtons : handlePlayAudio(b.text, b.langCode, b.id)
  \/ \E c \in speechCalls, a \in Payloads \cup {NoAudio} : generateSpeechSettled(c, a)
  \/ \E r \in PlayIds : playAudioResumed(r)
  \/ \E r \in PlayIds : playAudioResumeFailed(r)
  \/ \E r \in PlayIds : playAudioStarted(r)
  \/ \E r \in PlayIds : sourceOnEnded(r)

SpecCache == Init /\ [][NextCache]_vars

(***************************************************************************)
(* The player within one lookup: the audio buttons of the input and of its *)
(* translation are clicked, the speech calls of the clicks settle and the  *)
(* units play.  In SpecPlayerFair every playAudio call runs on: the        *)
(* promise of ctx.resume() settles, the continuation after the decode runs *)
(* and a unit that was started or stopped gets its ended event.            *)
(***************************************************************************)
NextPlayer ==
  \/ \E t \in AudioTexts : setInputText(t)
  \/ firstSearch
  \/ \E p \in SearchIds : translateSettled(p, TranslateResponse(search[p].text))
  \/ \E p \in SearchIds : richFailed(p)
  \/ \E b \in AudioButtons : handlePlayAudio(b.text, b.langCode, b.id)
  \/ \E c \in {x \in speechCalls : x.kind = "play"}, a \in Payloads \cup {NoAudio} :
        generateSpeechSettled(c, a)
  \/ \E r \in PlayIds : playAudioResumed(r)
  \/ \E r \in PlayIds : playAudioResumeFailed(r)
  \/ \E r \in PlayIds : playAudioStarted(r)
  \/ \E r \in PlayIds : sourceOnEnded(r)

SpecPlayer == Init /\ [][NextPlayer]_vars

(***************************************************************************)
(* The player when the speech endpoint may also return a payload that      *)
(* cannot be decoded.                                                      *)
(***************************************************************************)
NextDecode ==
  \/ \E t \in AudioTexts : setInputText(t)
  \/ firstSearch
  \/ \E p \in SearchIds : translateSettled(p, TranslateResponse(search[p].text))
  \/ \E p \in SearchIds : richFailed(p)
  \/ \E b \in AudioButtons : handlePlayAudio(b.text, b.langCode, b.id)
  \/ \E c \in {x \in speechCalls : x.kind = "play"}, a \in {"pcm1"} \cup BadPayloads :
        generateSpeechSettled(c, a)
  \/ \E r \in PlayIds : playAudioResumed(r)
  \/ \E r \in PlayIds : playAudioResumeFailed(r)
  \/ \E r \in PlayIds : playAudioStarted(r)
  \/ \E r \in PlayIds : playAudioDecodeFailed(r)
  \/ \E r \in PlayIds : sourceOnEnded(r)

SpecDecode == Init /\ [][NextDecode]_vars

resumeSettles(r) == playAudioResumed(r) \/ playAudioResumeFailed(r)

SpecPlayerFair ==
  /\ SpecPlayer
  /\ \A r \in PlayIds : WF_vars(resumeSettles(r))
  /\ \A r \in PlayIds : WF_vars(playAudioStarted(r))
  /\ \A r \in PlayIds : WF_vars(sourceOnEnded(r))

(***************************************************************************)
(* The flashcard store on its own: cards are added and removed in any      *)
(* order.                                                                  *)
(***************************************************************************)
NextStore ==
  \/ \E card \in Cards : addFlashcard(card)
  \/ \E id \in CardIds : removeFlashcard(id)

SpecStore == Init /\ [][NextStore]_vars

(***************************************************************************)
(* Persistence: App starts on each content of the localStorage item, cards *)
(* are added and removed once it is mounted, and the page is reloaded at   *)
(* any moment.                                                             *)
(***************************************************************************)
mountedStore == app = "mounted" /\ NextStore

NextPersist ==
  \/ loadEffect
  \/ saveEffectOnMount
  \/ renderLoaded
  \/ mountedStore
  \/ reload

SpecPersist == InitStored /\ [][NextPersist]_vars

(***************************************************************************)
(* Committing lookups: subjects are looked up, the card on display is      *)
(* committed and cards are removed, while the clock advances or not.       *)
(***************************************************************************)
NextCommit ==
  \/ \E t \in InputTexts : setInputText(t)
  \/ handleSearch
  \/ \E p \in SearchIds : translateSettled(p, TranslateResponse(search[p].text))
  \/ \E p \in SearchIds : richSettled(p, RichResponse(search[p].text))
  \/ \E p \in SearchIds : richFailed(p)
  \/ handleAddToFlashcards
  \/ \E id \in ClockIds : removeFlashcard(id)
  \/ tick

SpecCommit == Init /\ [][NextCommit]_vars

(***************************************************************************)
(* The visual of one card: one subject is looked up once, the visual type  *)
(* buttons are clicked and the generation calls settle in any order.       *)
(***************************************************************************)
NextVisual ==
  \/ \E t \in AudioTexts : setInputText(t)
  \/ firstSearch
  \/ \E p \in SearchIds : translateSettled(p, TranslateResponse(search[p].text))
  \/ \E p \in SearchIds : richSettled(p, RichResponse(search[p].text))
  \/ \E p \in SearchIds : richFailed(p)
  \/ \E type \in {IMAGE, SVG} : visualTypeButton(type)
  \/ \E v \in visualCalls, o \in VisualOutcomes : visualSettled(v, o)

SpecVisual == Init /\ [][NextVisual]_vars

(***************************************************************************)
(* One lookup and its background work: the pre-warm speech calls and the   *)
(* default visual settle at any time, or never.  In SpecPrewarmFair only   *)
(* the two awaited calls of the lookup are bound to complete.              *)
(***************************************************************************)
NextPrewarm ==
  \/ \E t \in AudioTexts : setInputText(t)
  \/ firstSearch
  \/ \E p \in SearchIds : translateSettled(p, EmptyString)
  \/ \E p \in SearchIds : translateSettled(p, TranslateResponse(search[p].text))
  \/ \E p \in SearchIds : richSettled(p, RichResponse(search[p].text))
  \/ \E p \in SearchIds : richFailed(p)
  \/ \E c \in {x \in speechCalls : x.kind = "prewarm"}, a \in Payloads \cup {NoAudio} :
        generateSpeechSettled(c, a)
  \/ \E v \in visualCalls, o \in VisualOutcomes : visualSettled(v, o)

SpecPrewarm == Init /\ [][NextPrewarm]_vars

SpecPrewarmFair ==
  /\ SpecPrewarm
  /\ \A p \in SearchIds : WF_vars(translateCompletes(p))
  /\ \A p \in SearchIds : WF_vars(richCompletes(p))

(***************************************************************************)
(* The chat of one lookup: the overlay is opened and closed, questions are *)
(* typed and sent, the chat calls settle in any order.  In SpecChatFair    *)
(* every chat call completes.  SpecChatLookups is the same with further    *)
(* searches started meanwhile.                                             *)
(***************************************************************************)
chatCompletes(i) ==
  \E c \in chatCalls :
    /\ c.id = i
    /\ \/ chatSettled(c, ChatResponse(c.message))
       \/ chatSettled(c, EmptyString)
       \/ chatFailed(c)

NextChatOnly ==
  \/ openChat
  \/ closeChat
  \/ \E t \in ChatTexts : setChatInput(t)
  \/ handleSendMessage
  \/ \E c \in chatCalls : chatSettled(c, ChatResponse(c.message))
  \/ \E c \in chatCalls : chatSettled(c, EmptyString)
  \/ \E c \in chatCalls : chatFailed(c)

NextChat ==
  \/ \E t \in AudioTexts : setInputText(t)
  \/ firstSearch
  \/ \E p \in SearchIds : translateSettled(p, TranslateResponse(search[p].text))
  \/ \E p \in SearchIds : richSettled(p, RichResponse(search[p].text))
  \/ NextChatOnly

SpecChat == Init /\ [][NextChat]_vars

SpecChatFair == SpecChat /\ \A i \in ChatIds : WF_vars(chatCompletes(i))

NextChatLookups ==
  \/ \E t \in AudioTexts : setInputText(t)
  \/ handleSearch
  \/ \E p \in SearchIds : translateSettled(p, TranslateResponse(search[p].text))
  \/ \E p \in SearchIds : richSettled(p, RichResponse(search[p].text))
  \/ NextChatOnly

SpecChatLookups == Init /\ [][NextChatLookups]_vars

(***************************************************************************)
(* One lookup whose rich-context call returns any object, complete or not. *)
(***************************************************************************)
NextSchema ==
  \/ \E t \in InputTexts : setInputText(t)
  \/ firstSearch
  \/ \E p \in SearchIds : translateSettled(p, EmptyString)
  \/ \E p \in SearchIds : translateSettled(p, TranslateResponse(search[p].text))
  \/ \E p \in SearchIds : \E richData \in RichContextReturns(search[p].text) :
        richSettled(p, richData)
  \/ \E p \in SearchIds : richFailed(p)
  \/ \E v \in visualCalls, o \in VisualOutcomes : visualSettled(v, o)

SpecSchema == Init /\ [][NextSchema]_vars


(***************************************************************************)
(*                              THE CLAIMS                                 *)
(***************************************************************************)
InFlight(p) == search[p].pc \in {"translate", "rich"}

(***************************************************************************)
(* C1.  The late completions of a superseded search do not modify result:  *)
(* in every reachable state each non-empty field of result was produced    *)
(* for the most recently searched subject.                                 *)
(***************************************************************************)
C1_ResultIsOfLatestSearch ==
  (nSearch > 0 /\ result # Null) =>
     LET cur == search[nSearch].text
         rich == RichResponse(cur)
     IN /\ result[1].translation \in
             {EmptyString, TranslateResponse(cur), rich.translation}
        /\ \A f \in ResultFields \ {"translation"} :
             result[1][f] \in {EmptyString, rich[f]}

(***************************************************************************)
(* C3.  Within one lookup the fast-translate response is applied, as the   *)
(* translation field only, before rich-context is dispatched: a lookup     *)
(* that is awaiting or has finished rich-context has had its translate     *)
(* response applied, result holds a definition or story of a subject only  *)
(* if a lookup of that subject has had its translate response applied, and *)
(* the step that applies the response changes no other field.              *)
(***************************************************************************)
C3_TranslateObservedBeforeRich ==
  /\ [](\A p \in SearchIds :
          /\ search[p].pc \in {"rich", "done"} => search[p].observed
          /\ search[p].outcome # "pending" => search[p].observed
          /\ ( /\ search[p].pc # "idle"
               /\ result # Null
               /\ \/ result[1].definition = RichResponse(search[p].text).definition
                  \/ result[1].story = RichResponse(search[p].text).story )
             => \E q \in SearchIds :
                  search[q].text = search[p].text /\ search[q].observed)
  /\ [][\A p \in SearchIds :
          (~search[p].observed /\ search'[p].observed) =>
             /\ search[p].pc = "translate"
             /\ search'[p].pc = "rich"
             /\ result'[1].translation = search'[p].simple
             /\ \A f \in ResultFields \ {"translation"} : result'[1][f] = result[1][f]
       ]_vars

C3_Witness ==
  \E p \in SearchIds :
    /\ search[p].pc = "done"
    /\ search[p].outcome = "ok"
    /\ search[p].simple = TranslateResponse(search[p].text)
    /\ result # Null
    /\ result[1].definition = RichResponse(search[p].text).definition

(***************************************************************************)
(* C4.  If rich-context fails after fast-translate succeeded, the final    *)
(* result of the lookup holds the fast translation and four empty fields.  *)
(* Stated for the most recent lookup, once no search is in flight.         *)
(***************************************************************************)
C4_PartialResultKept ==
  ( /\ nSearch > 0
    /\ \A p \in SearchIds : ~InFlight(p)
    /\ search[nSearch].outcome = "failed"
    /\ search[nSearch].simple # EmptyString )
  => result = Some([EmptyResult EXCEPT !.translation = search[nSearch].simple])

(***************************************************************************)
(* C5.  Every search with non-empty input eventually leaves Searching:     *)
(* once its backend calls have settled the invocation is over and          *)
(* isSearching is false, whichever of them succeeded or failed.            *)
(***************************************************************************)
C5_SearchEventuallyEnds ==
  \A p \in SearchIds :
    InFlight(p) ~> (search[p].pc = "done" /\ ~isSearching)

C5_Witness ==
  \E p \in SearchIds :
    /\ search[p].pc = "done"
    /\ search[p].outcome = "failed"
    /\ search[p].simple = EmptyString
    /\ ~isSearching

(***************************************************************************)
(* C6.  The step that starts a search sets isSearching and replaces result *)
(* by the skeleton of five empty fields, with no response of that lookup   *)
(* applied yet; result is populated only after a lookup that went through  *)
(* that step had a response applied.                                       *)
(***************************************************************************)
C6_SkeletonAtSearchStart ==
  /\ [](\A p \in SearchIds :
          (search[p].observed \/ search[p].outcome # "pending") => search[p].pc # "idle")
  /\ []((result # Null /\ result # Some(EmptyResult)) =>
          \E p \in SearchIds : search[p].pc # "idle" /\ search[p].observed)
  /\ [][\A p \in SearchIds :
          (search[p].pc = "idle" /\ search'[p].pc # "idle") =>
             /\ isSearching'
             /\ result' = Some(EmptyResult)
             /\ \A f \in ResultFields : result'[1][f] = EmptyString
             /\ search'[p].pc = "translate"
             /\ ~search'[p].observed
             /\ search'[p].outcome = "pending"
       ]_vars

C6_Witness ==
  /\ nSearch = 2
  /\ search[1].outcome = "ok"
  /\ search[2].pc = "translate"
  /\ isSearching
  /\ result = Some(EmptyResult)

(***************************************************************************)
(* C7.  Between two search starts no field of result goes from non-empty   *)
(* to empty.                                                               *)
(***************************************************************************)
C7_FieldsNeverRevert ==
  [][(nSearch' = nSearch /\ result # Null) =>
       \A f \in ResultFields :
         result[1][f] # EmptyString => result'[1][f] # EmptyString
    ]_vars

(***************************************************************************)
(* C2.  At most one audio unit is playing at any time, under every         *)
(* interleaving of playAudio and stopAudio, including a playAudio issued   *)
(* while an earlier one is suspended at its resume or decode await.        *)
(***************************************************************************)
Playing == {r \in PlayIds : unit[r] = "playing"}

C2_AtMostOnePlaying == Cardinality(Playing) <= 1

(***************************************************************************)
(* C8.  Once a key has a cached payload, that payload never changes and is *)
(* never removed, under any interleaving of generateSpeech calls.          *)
(***************************************************************************)
C8_CachedPayloadNeverChanges ==
  [][\A k \in DOMAIN audioCache :
       k \in DOMAIN audioCache' /\ audioCache'[k] = audioCache[k]
    ]_vars

(***************************************************************************)
(* C9.  generateSpeech called for a key that has a cached payload issues   *)
(* no backend call and returns the payload the synthesis of that key       *)
(* returned: every backend call that is issued is for a key not cached at  *)
(* that moment, and a handlePlayAudio invocation that finds its key cached *)
(* receives, with no call issued, the payload the latest synthesis of the  *)
(* key returned.                                                           *)
(***************************************************************************)
C9_CacheHitShortCircuits ==
  [][/\ \A c \in speechCalls' \ speechCalls : c.key \notin DOMAIN audioCache
     /\ \A r \in PlayIds :
          ( /\ play[r].pc = "idle"
            /\ play'[r].pc # "idle"
            /\ play'[r].key \in DOMAIN audioCache )
          => /\ speechCalls' = speechCalls
             /\ play'[r].key \in DOMAIN lastSynth
             /\ play'[r].data = lastSynth[play'[r].key]
             /\ play'[r].data \in Payloads
    ]_vars

C9_Witness ==
  \E r \in PlayIds :
    /\ play[r].hit
    /\ play[r].pc # "idle"
    /\ play[r].data \in Payloads
    /\ play[r].key \in DOMAIN audioCache

(***************************************************************************)
(* C10.  When a second identifier is requested while the first is still    *)
(* synthesizing, the late completion of the superseded request is a no-op: *)
(* it changes neither the loading mark nor the active identifier and       *)
(* touches no audio unit, so the active identifier is never that of a      *)
(* request older than the most recent one.                                 *)
(***************************************************************************)
C10_SupersededSynthesisIsNoOp ==
  /\ [](nPlay > 0 => activeAudioId \in {NullId, play[nPlay].id})
  /\ [][\A r \in PlayIds :
          (r < nPlay /\ play[r].pc = "synth" /\ play'[r].pc # "synth") =>
             /\ loadingAudioId' = loadingAudioId
             /\ activeAudioId' = activeAudioId
             /\ unit' = unit
             /\ currentSource' = currentSource
       ]_vars

(***************************************************************************)
(* C11.  A search started while a playback request is pending (its         *)
(* synthesis still in flight) cancels the request: when the synthesis of a *)
(* request made before the latest search start completes, that step leaves *)
(* the active identifier as it was, calls playAudio for no payload and     *)
(* touches no audio unit.                                                  *)
(***************************************************************************)
C11_SearchCancelsPendingPlayback ==
  [][\A r \in PlayIds :
       (play[r].pc = "synth" /\ play'[r].pc # "synth" /\ play[r].lookup < nSearch) =>
          /\ activeAudioId' = activeAudioId
          /\ play'[r].pc = "done"
          /\ unit' = unit
          /\ currentSource' = currentSource
    ]_vars

(***************************************************************************)
(* C12.  Visual content always matches the active visual type: content     *)
(* produced for one visual type is never installed while another type is   *)
(* active.                                                                 *)
(***************************************************************************)
ContentType(content) ==
  IF Head(content) = Head(ImageResponse(EmptyString)) THEN IMAGE ELSE SVG

C12_ContentMatchesType ==
  visualContent # Null => ContentType(visualContent[1]) = visualType

(***************************************************************************)
(* C13.  After a new search begins, visual content produced for the        *)
(* previous lookup is never installed: whenever visualContent is present,  *)
(* the most recent lookup has dispatched a generation and the content is   *)
(* the one generated for that lookup's subject.                            *)
(***************************************************************************)
ContentSubject(content) == Tail(content)

C13_VisualIsOfLatestSearch ==
  (nSearch > 0 /\ visualContent # Null) =>
     /\ search[nSearch].outcome = "ok"
     /\ ContentSubject(visualContent[1]) = search[nSearch].text

(***************************************************************************)
(* C14.  The end callback of a playback request clears the active audio    *)
(* identifier only if that request is still the current one: when the      *)
(* callback of an earlier request runs while the most recent request has   *)
(* marked its identifier active, the active identifier stays set.          *)
(***************************************************************************)
C14_StaleEndKeepsActive ==
  [][\A r \in PlayIds :
       ( /\ play'[r].ended > play[r].ended
         /\ r < nPlay
         /\ play[nPlay].pc \in {"resume", "decode", "done"}
         /\ play[nPlay].data # NoAudio
         /\ activeAudioId = play[nPlay].id )
       => activeAudioId' = activeAudioId
    ]_vars

(***************************************************************************)
(* C15.  Each playAudio call invokes its onEnded callback exactly once,    *)
(* whether its unit finishes naturally, is stopped, or fails to start: the *)
(* callback of a call never runs twice, and every call that entered        *)
(* playAudio eventually has had it run.                                    *)
(***************************************************************************)
C15_OnEndedExactlyOnce ==
  /\ [](\A r \in PlayIds : play[r].ended <= 1)
  /\ \A r \in PlayIds :
        (play[r].pc \in {"resume", "decode"}) ~> (play[r].pc = "done" /\ play[r].ended = 1)

C15_Witness ==
  \E r, q \in PlayIds :
    /\ unit[r] = "ended" /\ play[r].ended = 1
    /\ play[q].pc = "done" /\ play[q].data # NoAudio
    /\ unit[q] = "none" /\ play[q].ended = 1

(***************************************************************************)
(* C16.  Requesting playback of an identifier other than the active one    *)
(* first stops whatever is playing and only then marks the identifier as   *)
(* loading: after the step in which a request is made, no unit is playing. *)
(***************************************************************************)
C16_RequestStopsPlayback ==
  [][\A r \in PlayIds :
       (play[r].pc = "idle" /\ play'[r].pc # "idle") =>
          \A q \in PlayIds : unit'[q] # "playing"
    ]_vars

(***************************************************************************)
(* C17.  Requesting playback of the identifier that is currently active is *)
(* a toggle-off: after that step nothing is playing and the handle is      *)
(* empty, the active identifier is null, and no synthesis call and no      *)
(* playback request was issued.                                            *)
(***************************************************************************)
C17_ToggleOff ==
  [][\A b \in AudioButtons :
       (b.id = activeAudioId /\ handlePlayAudio(b.text, b.langCode, b.id)) =>
          /\ \A q \in PlayIds : unit'[q] # "playing"
          /\ currentSource' = 0
          /\ activeAudioId' = NullId
          /\ loadingAudioId' = loadingAudioId
          /\ speechCalls' = speechCalls
          /\ play' = play
          /\ nPlay' = nPlay
    ]_vars

(***************************************************************************)
(* C18.  After any sequence of addFlashcard and removeFlashcard from the   *)
(* empty collection, no two stored cards have sourceText equal ignoring    *)
(* case, and adding a card whose sourceText matches a stored card          *)
(* case-insensitively leaves the collection unchanged.                     *)
(***************************************************************************)
SameIgnoringCase(s, t) == ToLowerCase(s) = ToLowerCase(t)

C18_NoCaseInsensitiveDuplicates ==
  /\ \A i, j \in 1..Len(flashcards) :
        i # j => ~SameIgnoringCase(flashcards[i].sourceText, flashcards[j].sourceText)
  /\ ( /\ lastStoreOp.op = "add"
       /\ \E i \in 1..Len(lastStoreOp.before) :
            SameIgnoringCase(lastStoreOp.before[i].sourceText,
                             lastStoreOp.card[1].sourceText) )
     => flashcards = lastStoreOp.before

C18_Witness ==
  /\ lastStoreOp.op = "add"
  /\ Len(lastStoreOp.before) >= 2
  /\ \E i \in 1..Len(lastStoreOp.before) :
       /\ lastStoreOp.before[i].sourceText # lastStoreOp.card[1].sourceText
       /\ SameIgnoringCase(lastStoreOp.before[i].sourceText,
                           lastStoreOp.card[1].sourceText)
  /\ flashcards = lastStoreOp.before

(***************************************************************************)
(* C19.  Adding a card that is not a duplicate yields the new card         *)
(* followed by the previous collection in unchanged order.                 *)
(***************************************************************************)
C19_AddPrepends ==
  ( /\ lastStoreOp.op = "add"
    /\ \A i \in 1..Len(lastStoreOp.before) :
         ~SameIgnoringCase(lastStoreOp.before[i].sourceText,
                           lastStoreOp.card[1].sourceText) )
  => /\ Len(flashcards) = Len(lastStoreOp.before) + 1
     /\ flashcards[1] = lastStoreOp.card[1]
     /\ \A i \in 1..Len(lastStoreOp.before) : flashcards[i + 1] = lastStoreOp.before[i]

C19_Witness ==
  /\ lastStoreOp.op = "add"
  /\ Len(lastStoreOp.before) = 2
  /\ Len(flashcards) = 3
  /\ flashcards[1] = lastStoreOp.card[1]

(***************************************************************************)
(* C20.  removeFlashcard(id) removes the cards with that id and leaves     *)
(* every other card and their relative order unchanged; when no card has   *)
(* that id the collection is unchanged, and removing the same id again     *)
(* changes nothing.                                                        *)
(***************************************************************************)
C20_RemoveKeepsOthers ==
  lastStoreOp.op = "remove" =>
    LET Kept(c) == c.id # lastStoreOp.id
    IN /\ flashcards = SelectSeq(lastStoreOp.before, Kept)
       /\ (\A i \in 1..Len(lastStoreOp.before) : Kept(lastStoreOp.before[i]))
            => flashcards = lastStoreOp.before
       /\ FilterOutId(flashcards, lastStoreOp.id) = flashcards

C20_Witness ==
  /\ lastStoreOp.op = "remove"
  /\ Len(lastStoreOp.before) = 3
  /\ Len(flashcards) = 2
  /\ lastStoreOp.before[2].id = lastStoreOp.id
  /\ flashcards = <<lastStoreOp.before[1], lastStoreOp.before[3]>>

(***************************************************************************)
(* C21.  Flashcard ids are unique: after any sequence of commits and       *)
(* removals, also with two commits made at the same clock reading, no two  *)
(* cards of the collection share an id.                                    *)
(***************************************************************************)
C21_IdsUnique ==
  \A i, j \in 1..Len(flashcards) : i # j => flashcards[i].id # flashcards[j].id

(***************************************************************************)
(* C22.  If the stored item cannot be restored as a flashcard collection   *)
(* (a text that does not parse, or one that parses to something other than *)
(* an array), startup falls back to the empty collection and the           *)
(* application keeps working: it never crashes, and it mounts with the     *)
(* empty collection.                                                       *)
(***************************************************************************)
C22_BadSlotFallsBack ==
  /\ app # "crashed"
  /\ (loaded # Null /\ loaded[1].kind # "array") => app \in {"loaded", "rendering"}

(***************************************************************************)
(* C23.  After every add or remove the stored item is the serialization of *)
(* the full current collection: whenever App is mounted the item equals    *)
(* the serialization of the collection in memory and parses back to it,    *)
(* and a reload of the mounted page restores the same cards in the same    *)
(* order.                                                                  *)
(***************************************************************************)
C23_SlotMirrorsCollection ==
  app = "mounted" =>
    /\ storage = Some(JSONstringify(flashcards))
    /\ Parses(storage[1])
    /\ JSONparse(storage[1]).kind = "array"
    /\ JSONparse(storage[1]).items = flashcards
    /\ lastStoreOp.op = "reload" => flashcards = lastStoreOp.before

C23_Witness ==
  /\ app = "mounted"
  /\ lastStoreOp.op = "reload"
  /\ Len(flashcards) = 3
  /\ flashcards = lastStoreOp.before
  /\ storage = Some(JSONstringify(flashcards))

(***************************************************************************)
(* C24.  While the latest lookup shows its skeleton or partial result and  *)
(* its rich-context call has not completed, the lookup can be committed    *)
(* (and the card then has an empty definition and story).                  *)
(***************************************************************************)
C24_CommitBeforeRichContext ==
  ( /\ nSearch > 0
    /\ InFlight(nSearch)
    /\ result # Null
    /\ result[1].definition = EmptyString
    /\ ~hasAddedToFlashcards )
  => ENABLED handleAddToFlashcards

(***************************************************************************)
(* C25.  When getRichContext returns an object that lacks one of the five  *)
(* mandatory fields, the lookup ends as a failed one: result keeps its     *)
(* partial state and neither a visual generation nor a speech pre-warm is  *)
(* started.                                                                *)
(***************************************************************************)
C25_SchemaViolationIsFailure ==
  [][\A p \in SearchIds :
       \A richData \in RichContextReturns(search[p].text) :
         (~SchemaValid(richData) /\ richSettled(p, richData)) =>
           /\ result' = result
           /\ visualCalls' = visualCalls
           /\ speechCalls' = speechCalls
           /\ search'[p].outcome = "failed"]_vars

(***************************************************************************)
(* C26.  generateSpeech on a cache miss issues a call to the speech        *)
(* endpoint.  When the call succeeds the payload is stored under the key   *)
(* of (text, voice) and handed to the caller; when it fails or carries no  *)
(* audio the caller receives null (it ends without playing and without an  *)
(* exception path) and the cache is left as it was.                        *)
(***************************************************************************)
C26_MissCallsEndpoint ==
  [][\A b \in AudioButtons :
       LET cacheKey == CacheKey(b.text, getVoiceForLang(b.langCode))
       IN (/\ activeAudioId # b.id
           /\ ~CacheHas(cacheKey)
           /\ handlePlayAudio(b.text, b.langCode, b.id))
          => /\ \E c \in speechCalls' \ speechCalls :
                  c.key = cacheKey /\ c.kind = "play" /\ c.req = nPlay'
             /\ audioCache' = audioCache]_vars

C26_SettleStoresOrReturnsNull ==
  [][\A c \in speechCalls : \A a \in Payloads \cup {NoAudio} :
       generateSpeechSettled(c, a) =>
         IF a # NoAudio
         THEN /\ c.key \in DOMAIN audioCache'
              /\ audioCache'[c.key] = a
              /\ \A k \in DOMAIN audioCache \ {c.key} :
                   k \in DOMAIN audioCache' /\ audioCache'[k] = audioCache[k]
              /\ c.kind = "play" => play'[c.req].data = a
         ELSE /\ audioCache' = audioCache
              /\ c.kind = "play" =>
                   /\ play'[c.req].pc = "done"
                   /\ play'[c.req].data = NoAudio
                   /\ loadingAudioId' = NullId
                   /\ activeAudioId' = activeAudioId]_vars

C26_GenerateSpeechOnMiss ==
  C26_MissCallsEndpoint /\ C26_SettleStoresOrReturnsNull

C26_Witness ==
  \E r1, r2 \in PlayIds :
    /\ ~play[r1].hit /\ play[r1].pc = "done" /\ play[r1].data = NoAudio
    /\ ~CacheHas(play[r1].key)
    /\ ~play[r2].hit /\ play[r2].data \in Payloads
    /\ CacheHas(play[r2].key) /\ audioCache[play[r2].key] = play[r2].data

(***************************************************************************)
(* C27.  A search on an empty or whitespace-only input is rejected before  *)
(* anything is dispatched: the step changes nothing (result, isSearching,  *)
(* visual content, chat transcript, audio state, calls in flight), and no  *)
(* lookup was ever started on such a text.                                 *)
(***************************************************************************)
C27_BlankSearchRejected ==
  /\ [](\A p \in SearchIds :
          search[p].pc # "idle" => Trim(search[p].text) # EmptyString)
  /\ [][(Trim(inputText) = EmptyString /\ handleSearch) => UNCHANGED vars]_vars

C27_Witness ==
  /\ inputText = <<" ">>
  /\ ENABLED handleSearch
  /\ result # Null /\ result[1].definition # EmptyString
  /\ visualContent # Null
  /\ ~isSearching
  /\ nSearch < MaxSearches

(***************************************************************************)
(* C28.  The step that starts a search (non-empty input) stops playback    *)
(* and clears the active and loading identifiers, the visual content, the  *)
(* chat transcript and the added flag: after it no unit is playing, the    *)
(* handle is empty, and the new lookup is at its first backend call.       *)
(***************************************************************************)
C28_SearchStartClears ==
  [][\A p \in SearchIds :
       (search[p].pc = "idle" /\ search'[p].pc # "idle") =>
          /\ search'[p].pc = "translate"
          /\ \A q \in PlayIds : unit'[q] # "playing"
          /\ currentSource' = 0
          /\ activeAudioId' = NullId
          /\ loadingAudioId' = NullId
          /\ visualContent' = Null
          /\ chatMessages' = <<>>
          /\ ~hasAddedToFlashcards'
    ]_vars

(***************************************************************************)
(* C29.  When the rich-context call of a lookup responds, result becomes   *)
(* the five fields of the response, except that translation is the value   *)
(* of the fast translate when that is non-empty.  A fast translate that    *)
(* returned the empty string does not end the lookup: its rich-context     *)
(* call is dispatched all the same.                                        *)
(***************************************************************************)
C29_RichReplacesPreferringFast ==
  [][\A p \in SearchIds :
       /\ (search[p].pc = "translate" /\ search'[p].pc # "translate") =>
             /\ search'[p].pc = "rich"
             /\ search'[p].outcome = "pending"
       /\ (search[p].pc = "rich" /\ search'[p].outcome = "ok") =>
             result' = Some([RichResponse(search[p].text) EXCEPT
                               !.translation = IF search[p].simple # EmptyString
                                               THEN search[p].simple
                                               ELSE @])
    ]_vars

C29_Witness ==
  \E p, q \in SearchIds :
    /\ search[p].outcome = "ok" /\ search[p].simple # EmptyString
    /\ search[q].outcome = "ok" /\ search[q].simple = EmptyString
    /\ result = Some(RichResponse(search[q].text))

(***************************************************************************)
(* C30.  The speech pre-warms are fire-and-forget.  The rich-context call  *)
(* is dispatched in the step that issues the input/translation pre-warms;  *)
(* the step that receives rich-context leaves Searching while issuing the  *)
(* definition/story pre-warms and the default visual; a pre-warm that      *)
(* fails changes nothing but the set of calls in flight; a rich-context    *)
(* response can be taken whatever pre-warms are in flight; and a lookup    *)
(* whose translate and rich-context calls complete ends, with Searching    *)
(* left, even if no pre-warm and no visual generation ever settles.        *)
(***************************************************************************)
PrewarmsInFlight(p, calls) == {c.slot : c \in {x \in calls : x.kind = "prewarm" /\ x.req = p}}

C30_PrewarmSteps ==
  [][\A p \in SearchIds :
       /\ (search[p].pc = "translate" /\ search'[p].pc # "translate") =>
             /\ search'[p].pc = "rich"
             /\ "input" \in PrewarmsInFlight(p, speechCalls')
       /\ (search[p].pc = "rich" /\ search'[p].pc # "rich") =>
             /\ search'[p].pc = "done"
             /\ ~isSearching'
             /\ search'[p].outcome = "ok" =>
                  /\ {"definition", "story"} \subseteq PrewarmsInFlight(p, speechCalls')
                  /\ visualCalls' # {}
                  /\ isGeneratingVisual'
    ]_vars

C30_FailedPrewarmIsSilent ==
  [][\A c \in speechCalls :
       (c.kind = "prewarm" /\ generateSpeechSettled(c, NoAudio)) =>
          UNCHANGED <<lookupVars, visualVars, playerVars, audioIdVars, cacheVars,
                      nPlay, useAltVoice, storeVars, chatVars>>
    ]_vars

C30_RichContextNotBlocked ==
  [](\A p \in SearchIds :
       search[p].pc = "rich" => ENABLED richSettled(p, RichResponse(search[p].text)))

C30_LookupEndsWithoutPrewarms ==
  \A p \in SearchIds :
    InFlight(p) ~> (search[p].pc = "done" /\ ~isSearching)

C30_PrewarmsFireAndForget ==
  /\ C30_PrewarmSteps
  /\ C30_FailedPrewarmIsSilent
  /\ C30_RichContextNotBlocked
  /\ C30_LookupEndsWithoutPrewarms

C30_Witness ==
  \E p \in SearchIds :
    /\ search[p].pc = "done" /\ search[p].outcome = "ok"
    /\ ~isSearching
    /\ {"input", "definition", "story"} \subseteq PrewarmsInFlight(p, speechCalls)
    /\ visualCalls # {}

(***************************************************************************)
(* C31.  Sending a chat message appends the user message and raises the    *)
(* loading flag while the chat call is in flight; a reply is appended at   *)
(* the end of a transcript that still holds the user message it answers;   *)
(* a failed call leaves the transcript as it was; either way the step      *)
(* clears the loading flag.                                                *)
(***************************************************************************)
C31_ChatSendAndReply ==
  [][/\ nChat' # nChat =>
          /\ chatMessages' = Append(chatMessages, ChatMessage("user", chatInput))
          /\ isChatLoading'
          /\ \E c \in chatCalls' \ chatCalls : c.message = chatInput
     /\ \A c \in chatCalls \ chatCalls' :
          /\ ~isChatLoading'
          /\ \/ chatMessages' = chatMessages
             \/ /\ Len(chatMessages') = Len(chatMessages) + 1
                /\ SubSeq(chatMessages', 1, Len(chatMessages)) = chatMessages
                /\ chatMessages'[Len(chatMessages')].role = "model"
                /\ \E i \in 1..Len(chatMessages) :
                     chatMessages[i] = ChatMessage("user", c.message)
    ]_vars

(***************************************************************************)
(* C32.  The history handed to chatWithAI is the transcript as it stood    *)
(* before the message being sent was appended: the same turns, in the same *)
(* order, with their roles.                                                *)
(***************************************************************************)
C32_HistoryIsPriorTranscript ==
  [][nChat' # nChat =>
       \E c \in chatCalls' \ chatCalls :
         /\ c.id = nChat'
         /\ c.message = chatInput
         /\ Len(c.history) = Len(chatMessages)
         /\ \A i \in 1..Len(chatMessages) :
              /\ c.history[i].role = chatMessages[i].role
              /\ c.history[i].text = chatMessages[i].text
         /\ chatMessages' = Append(chatMessages, ChatMessage("user", c.message))
    ]_vars

C32_Witness ==
  \E c \in chatCalls :
    /\ Len(c.history) = 2
    /\ c.history[1] = ChatMessage("user", <<"q1">>)
    /\ c.history[2] = ChatMessage("model", ChatResponse(<<"q1">>))
    /\ chatMessages = Append(c.history, ChatMessage("user", c.message))

(***************************************************************************)
(* C39.  A chat call made before the latest search start adds nothing to   *)
(* the transcript when it completes: after a search cleared the            *)
(* transcript, replies to messages of the previous lookup are dropped.     *)
(***************************************************************************)
C39_StaleReplyDropped ==
  [][\A c \in chatCalls \ chatCalls' :
       c.lookup < nSearch => chatMessages' = chatMessages]_vars

(***************************************************************************)
(* C33.  A handleGenerateVisual call makes its type the active one, the    *)
(* content absent and the generating flag raised while its generation call *)
(* is in flight; when the call settles the flag is cleared, a non-null     *)
(* result is the content, and after a null result or a failure the content *)
(* is absent.                                                              *)
(***************************************************************************)
C33_GenerateVisual ==
  [][/\ nVisual' # nVisual =>
          /\ visualContent' = Null
          /\ isGeneratingVisual'
          /\ \E v \in visualCalls' \ visualCalls :
               v.id = nVisual' /\ v.type = visualType'
     /\ \A v \in visualCalls :
          /\ visualSettled(v, "content") =>
               visualContent' = Some(VisualResponse(v)) /\ ~isGeneratingVisual'
          /\ (visualSettled(v, "null") \/ visualSettled(v, "throw")) =>
               visualContent' = Null /\ ~isGeneratingVisual'
    ]_vars

C35_HandleTracksPlayingUnit ==
  \A r \in PlayIds : unit[r] = "playing" => currentSource = r

(***************************************************************************)
(* C36.  isSearching is true whenever the translate or rich-context call   *)
(* of some lookup is outstanding: the completion of a superseded search    *)
(* does not clear the flag while a newer search is still running.          *)
(***************************************************************************)
C36_SearchingWhileOutstanding ==
  (\E p \in SearchIds : InFlight(p)) => isSearching

(***************************************************************************)
(* C37.  The sourceText of every committed card is the subject whose       *)
(* lookup produced the card's definition and story, also when the input    *)
(* field was edited between the search and the commit.                     *)
(***************************************************************************)
C37_SourceTextIsLookedUpSubject ==
  \A i \in 1..Len(flashcards) :
    /\ flashcards[i].definition = RichResponse(flashcards[i].sourceText).definition
    /\ flashcards[i].story = RichResponse(flashcards[i].sourceText).story

(***************************************************************************)
(* C38.  While App starts on a stored item that holds a non-empty          *)
(* collection, no step overwrites the item with an empty collection: until *)
(* App is mounted every card of the item is still in the item after each   *)
(* step.                                                                   *)
(***************************************************************************)
C38_StartupKeepsStoredCards ==
  [][( /\ app \in {"start", "loaded", "rendering"}
       /\ storage # Null
       /\ storage[1].kind = "array"
       /\ Len(storage[1].items) > 0 )
     => /\ storage' # Null
        /\ storage'[1].kind = "array"
        /\ \A i \in 1..Len(storage[1].items) :
             \E j \in 1..Len(storage'[1].items) :
               storage'[1].items[j] = storage[1].items[i]
    ]_vars

(***************************************************************************)
(* C40.  A playAudio call whose payload cannot be decoded ends in its      *)
(* catch block: onEnded runs exactly once for it, it creates no unit, and  *)
(* when it has ended no unit is playing and the handle is empty.           *)
(***************************************************************************)
C40_UndecodablePayload ==
  /\ [](\A r \in PlayIds :
          ~Decodes(play[r].data) => unit[r] = "none" /\ play[r].ended <= 1)
  /\ [][\A r \in PlayIds :
         playAudioDecodeFailed(r) =>
           /\ play'[r].pc = "done"
           /\ play'[r].ended = 1
           /\ currentSource' = 0
           /\ \A q \in PlayIds : unit'[q] # "playing"
      ]_vars

====
